---- MODULE Spec2Model ----
(***************************************************************************)
(* Verification model of pyTecanFluent's worklist compiler.                *)
(*                                                                         *)
(*   Map2Robot.pip_mastermix    (specification SpecMM)                     *)
(*   Dilute.dilution_volumes    (specification SpecDil)                    *)
(*   Map2Robot.pip_water        (specification SpecWater)                  *)
(*   Fluent command attributes  (specification SpecAttr)                   *)
(*   reorder_384well            (specification SpecReorder)                *)
(*   Dilute.pip_dilutant, pip_samples, Fluent.multi_disp.cmd               *)
(*                              (specification SpecPip; SpecPipFair with   *)
(*                               weak fairness of the interpreter's steps) *)
(*   Map2Robot.pip_primers, pip_samples, with pip_water and                *)
(*   Dilute.pip_samples         (specification SpecSingle)                 *)
(*   Map2Robot.check_args, add_dest (specification SpecDest)               *)
(*   Utils.check_gwl, with the worklist handle of Dilute.main              *)
(*                              (specification SpecFiles)                  *)
(*   two calls of pip_mastermix or of multi_disp.cmd in one process        *)
(*                              (specification SpecTwice)                  *)
(*                                                                         *)
(* Volumes are integers counted in tenths of a microlitre (13.1 ul = 131), *)
(* so that round(x, 1) is a rounding to an integer.  Concentrations and    *)
(* dilution volumes are exact rationals <<numerator, denominator>>.        *)
(***************************************************************************)
EXTENDS Integers, Sequences, FiniteSets, TLC

VARIABLES
    \* ---- Map2Robot.pip_mastermix ----
    pc,             \* position in pip_mastermix
    err,            \* exception that ended the call, "none" if none
    df_map_n,       \* df_map.shape[0]: rows (reactions) of the mapping table
    mm_volume,      \* parameter mm_volume (tenths of ul)
    multi_disp,     \* parameter multi_disp
    tube_max_vol,   \* gwl.db.get_labware_max_volume('1.5ml Eppendorf') (tenths of ul)
    channels,       \* dict channel -> list of commands
    i,              \* loop index of the row loop (line 460)
    channel,        \* loop index of the loops over channels
    total_vol_sum,  \* running pre-overage volume drawn (line 477)
    gwl,            \* commands added to the worklist by gwl.add
    \* ---- Dilute.dilution_volumes ----
    dpc,            \* position in dilution_volumes
    derr,           \* exception that ended the call, "none" if none
    df_conc,        \* the concentration table: a sequence of rows
    dilute_conc, min_vol, max_vol, min_total,   \* parameters
    dest_labware,   \* what Labware.LABWARE_DB holds for parameter dest_type
    max_well_vol,   \* local max_well_vol (line 333)
    sample_conc_in, \* the TECAN_sample_conc column as passed in (never written)
    \* ---- one record per further entry point, [pc |-> "idle"] when not running ----
    water,          \* Map2Robot.pip_water: parameters, locals and the worklist
    command,        \* a Fluent command object and the last attribute assignment
    reorder,        \* reorder_384well: the table passed in and the one returned
    pip,            \* Dilute.pip_dilutant / pip_samples: table, locals, output file
    rerun,          \* what the first of two calls with the same arguments produced
    transfer,       \* Map2Robot.pip_primer / pip_samples: table, loop index, worklist
    dest,           \* Map2Robot.add_dest: table, parameters, assigned destinations
    handle          \* Utils.check_gwl: the file read and the state of its handle

mmvars  == <<pc, err, df_map_n, mm_volume, multi_disp, tube_max_vol,
             channels, i, channel, total_vol_sum, gwl>>
dilvars == <<dpc, derr, df_conc, dilute_conc, min_vol, max_vol, min_total,
             dest_labware, max_well_vol, sample_conc_in>>
morevars == <<rerun, transfer, dest, handle>>
extvars == <<water, command, reorder, pip, morevars>>
vars    == <<mmvars, dilvars, extvars>>

Idle == [pc |-> "idle"]
MoreIdle == rerun = Idle /\ transfer = Idle /\ dest = Idle /\ handle = Idle
ExtIdle == water = Idle /\ command = Idle /\ reorder = Idle /\ pip = Idle /\ MoreIdle

(***************************************************************************)
(* Bounds of the model                                                     *)
(***************************************************************************)
MaxRxns == 25
MaxMultiDisp == 3

\* number of pipetting channels (range(8), i % 8)
NChannels == 8
Channels == 0 .. (NChannels - 1)

\* per-reaction mastermix volumes tried, in tenths of ul (0.7 ul, 13.1 ul = the default)
MMVolumes == {7, 131}
\* tube capacities tried, in tenths of ul (30 ul, 1500 ul)
TubeMaxVols == {300, 15000}

(***************************************************************************)
(* Helpers on sequences                                                    *)
(***************************************************************************)
Reverse(s) == [k \in 1 .. Len(s) |-> s[Len(s) + 1 - k]]

RECURSIVE Flatten(_, _, _)
\* concatenation of f[lo], f[lo+1], ..., f[hi]
Flatten(f, lo, hi) == IF lo > hi THEN <<>> ELSE f[lo] \o Flatten(f, lo + 1, hi)

(***************************************************************************)
(* Command records (Fluent.Comment, Dispense, Waste, Aspirate, Break)      *)
(***************************************************************************)
Comment == [cmd |-> "C"]
Break == [cmd |-> "B"]
Waste == [cmd |-> "W"]
\* a Dispense built from row `row` of df_map (its dest labware name/type/position)
Dispense(row, vol) == [cmd |-> "D", row |-> row, Volume |-> vol]
Aspirate(tube_id, vol) == [cmd |-> "A", tube |-> tube_id, Volume |-> vol]

IsDispense(x) == x.cmd = "D"
IsWaste(x) == x.cmd = "W"
IsAspirate(x) == x.cmd = "A"

(***************************************************************************)
(* Map2Robot.pip_mastermix                                                 *)
(***************************************************************************)
\* round(x, 1) of x = num/100 tenths: nearest integer, ties to even.
RoundDiv100(num) ==
    LET q == num \div 100
        r == num % 100
    IN  IF r < 50 THEN q
        ELSE IF r > 50 THEN q + 1
        ELSE IF q % 2 = 0 THEN q ELSE q + 1

\* a row loop that is off by one channel
ChannelOfShifted(row) == (row + 1) % NChannels

\* line 461: channel = i % 8
ChannelOf(row) == row % NChannels

\* a Waste that comes too late
WasteDueLate(v, m) == Len(v) % (m + 2) = 0

\* line 469: len(channels[channel]) % multi_disp == 0  (len counts the Waste
\* markers already in the list as well as the dispenses)
WasteDue(v, m) == Len(v) % m = 0

\* line 473: not isinstance(v[-1], Fluent.Waste)
LacksFinalWaste(v) == ~IsWaste(v[Len(v)])

\* line 484: i == len(v)-1 or (i != 0 and isinstance(x, Fluent.Waste))
AspirateDue(idx, len, x) == idx = len - 1 \/ (idx # 0 /\ IsWaste(x))

\* line 486: int(total_vol_sum / tube_max_vol) + 1
TubeId(total, cap) == (total \div cap) + 1

\* line 490: round(vol_sum * 1.15, 1)
AspVolume(vol_sum) == RoundDiv100(vol_sum * 115)

\* lines 481-498: the scan of reversed(v); idx is the 0-based enumerate index,
\* st = [cmds, vol_sum, total] the loop's state.
RECURSIVE ScanReversed(_, _, _, _)
ScanReversed(v, idx, st, cap) ==
    IF idx >= Len(v) THEN st
    ELSE
      LET x == v[Len(v) - idx]
          cmds1 == IF IsDispense(x) THEN Append(st.cmds, x) ELSE st.cmds
          due == AspirateDue(idx, Len(v), x)
          asp == Aspirate(TubeId(st.total, cap), AspVolume(st.vol_sum))
          cmds2 == IF due THEN Append(cmds1, asp) ELSE cmds1
          total2 == IF due THEN st.total + st.vol_sum ELSE st.total
          vol2 == IF due THEN 0
                  ELSE IF IsDispense(x) THEN st.vol_sum + x.Volume
                  ELSE st.vol_sum
          cmds3 == IF IsWaste(x) THEN Append(cmds2, x) ELSE cmds2
      IN  ScanReversed(v, idx + 1,
                       [cmds |-> cmds3, vol_sum |-> vol2, total |-> total2], cap)

\* lines 479-499 for one channel: the new list and the new total_vol_sum
Synthesize(v, total, cap) ==
    LET st == ScanReversed(v, 0, [cmds |-> <<>>, vol_sum |-> 0, total |-> total], cap)
    IN  [cmds |-> Reverse(st.cmds), total |-> st.total]

DilIdle ==
    /\ dpc = "idle" /\ derr = "none" /\ df_conc = <<>>
    /\ dilute_conc = 0 /\ min_vol = 0 /\ max_vol = 0 /\ min_total = 0
    /\ dest_labware = [known |-> FALSE, has_max_volume |-> FALSE, max_volume |-> 0]
    /\ max_well_vol = 0
    /\ sample_conc_in = <<>>

\* the state on entry to pip_mastermix
InitMM ==
    /\ pc = "start"
    /\ err = "none"
    /\ df_map_n \in 0 .. MaxRxns
    /\ mm_volume \in MMVolumes
    /\ multi_disp \in 1 .. MaxMultiDisp
    /\ tube_max_vol \in TubeMaxVols
    /\ channels = [c \in Channels |-> <<>>]
    /\ i = 0
    /\ channel = 0
    /\ total_vol_sum = 0
    /\ gwl = <<>>
    /\ DilIdle
    /\ ExtIdle

\* lines 456-458: gwl.add(Fluent.Comment('MasterMix'))
AddComment ==
    /\ pc = "start"
    /\ gwl' = Append(gwl, Comment)
    /\ pc' = "distribute"
    /\ UNCHANGED <<err, df_map_n, mm_volume, multi_disp, tube_max_vol, channels,
                   i, channel, total_vol_sum>>
    /\ UNCHANGED <<dilvars, extvars>>

\* lines 460-470: one pass of the row loop
Distribute ==
    /\ pc = "distribute"
    /\ i < df_map_n
    /\ LET c == ChannelOf(i)
           v1 == Append(channels[c], Dispense(i, mm_volume))
           v2 == IF WasteDue(v1, multi_disp) THEN Append(v1, Waste) ELSE v1
       IN  channels' = [channels EXCEPT ![c] = v2]
    /\ i' = i + 1
    /\ UNCHANGED <<pc, err, df_map_n, mm_volume, multi_disp, tube_max_vol,
                   channel, total_vol_sum, gwl>>
    /\ UNCHANGED <<dilvars, extvars>>

\* line 460: the row loop ends
DistributeDone ==
    /\ pc = "distribute"
    /\ i >= df_map_n
    /\ pc' = "final_waste"
    /\ channel' = 0
    /\ UNCHANGED <<err, df_map_n, mm_volume, multi_disp, tube_max_vol, channels,
                   i, total_vol_sum, gwl>>
    /\ UNCHANGED <<dilvars, extvars>>

\* lines 472-474: one pass of the loop that closes each channel with a Waste;
\* v[-1] on an empty list raises IndexError
FinalWaste ==
    /\ pc = "final_waste"
    /\ channel < NChannels
    /\ IF channels[channel] = <<>>
       THEN /\ pc' = "error"
            /\ err' = "IndexError"
            /\ UNCHANGED <<channels, channel>>
       ELSE /\ channels' = [channels EXCEPT ![channel] =
                              IF LacksFinalWaste(@) THEN Append(@, Waste) ELSE @]
            /\ channel' = channel + 1
            /\ UNCHANGED <<pc, err>>
    /\ UNCHANGED <<df_map_n, mm_volume, multi_disp, tube_max_vol, i,
                   total_vol_sum, gwl>>
    /\ UNCHANGED <<dilvars, extvars>>

\* the loop ends and the counter is left as it is
FinalWasteDoneKeepsTotal ==
    /\ pc = "final_waste"
    /\ channel >= NChannels
    /\ pc' = "aspirate"
    /\ channel' = 0
    /\ UNCHANGED <<err, df_map_n, mm_volume, multi_disp, tube_max_vol, channels,
                   i, gwl, total_vol_sum>>
    /\ UNCHANGED <<dilvars, extvars>>

\* lines 475-477: the loop ends; total_vol_sum = 0
FinalWasteDone ==
    /\ pc = "final_waste"
    /\ channel >= NChannels
    /\ pc' = "aspirate"
    /\ channel' = 0
    /\ total_vol_sum' = 0
    /\ UNCHANGED <<err, df_map_n, mm_volume, multi_disp, tube_max_vol, channels,
                   i, gwl>>
    /\ UNCHANGED <<dilvars, extvars>>

\* lines 478-499: one pass of the loop over sorted(channels.items())
AddAspirations ==
    /\ pc = "aspirate"
    /\ channel < NChannels
    /\ LET r == Synthesize(channels[channel], total_vol_sum, tube_max_vol)
       IN  /\ channels' = [channels EXCEPT ![channel] = r.cmds]
           /\ total_vol_sum' = r.total
    /\ channel' = channel + 1
    /\ UNCHANGED <<pc, err, df_map_n, mm_volume, multi_disp, tube_max_vol, i, gwl>>
    /\ UNCHANGED <<dilvars, extvars>>

AddAspirationsDone ==
    /\ pc = "aspirate"
    /\ channel >= NChannels
    /\ pc' = "emit"
    /\ channel' = 0
    /\ UNCHANGED <<err, df_map_n, mm_volume, multi_disp, tube_max_vol, channels,
                   i, total_vol_sum, gwl>>
    /\ UNCHANGED <<dilvars, extvars>>

\* lines 502-505: one pass of the loop adding a channel's commands to gwl
EmitChannel ==
    /\ pc = "emit"
    /\ channel < NChannels
    /\ gwl' = gwl \o channels[channel]
    /\ channel' = channel + 1
    /\ UNCHANGED <<pc, err, df_map_n, mm_volume, multi_disp, tube_max_vol,
                   channels, i, total_vol_sum>>
    /\ UNCHANGED <<dilvars, extvars>>

\* lines 507-508: gwl.add(Fluent.Break())
AddBreak ==
    /\ pc = "emit"
    /\ channel >= NChannels
    /\ gwl' = Append(gwl, Break)
    /\ pc' = "done"
    /\ UNCHANGED <<err, df_map_n, mm_volume, multi_disp, tube_max_vol, channels,
                   i, channel, total_vol_sum>>
    /\ UNCHANGED <<dilvars, extvars>>

\* a second call of pip_mastermix in the same process, with the arguments of
\* the first and a worklist of its own: line 456 binds channels anew; the
\* locals i, channel and total_vol_sum are unbound until the call assigns
\* them, and are shown with the values the first call left
CallAgain ==
    /\ pc \in {"done", "error"}
    /\ rerun = Idle
    /\ rerun' = [pc |-> "second", ended |-> pc, err |-> err, gwl |-> gwl]
    /\ pc' = "start"
    /\ err' = "none"
    /\ channels' = [c \in Channels |-> <<>>]
    /\ i' = 0
    /\ gwl' = <<>>
    /\ UNCHANGED <<df_map_n, mm_volume, multi_disp, tube_max_vol, channel,
                   total_vol_sum>>
    /\ UNCHANGED <<dilvars, water, command, reorder, pip, transfer, dest, handle>>

NextMM ==
    \/ CallAgain
    \/ AddComment
    \/ Distribute
    \/ DistributeDone
    \/ FinalWaste
    \/ FinalWasteDone
    \/ AddAspirations
    \/ AddAspirationsDone
    \/ EmitChannel
    \/ AddBreak

SpecMM == InitMM /\ [][NextMM]_vars

(***************************************************************************)
(* Exact rationals <<n, d>> with d > 0 in lowest terms; <<0, 0>> stands    *)
(* for a value that is not a number (an unset column, 0/0).                *)
(***************************************************************************)
RECURSIVE GCD(_, _)
GCD(a, b) == IF b = 0 THEN a ELSE GCD(b, a % b)

Abs(a) == IF a < 0 THEN 0 - a ELSE a

Norm(n, d) ==
    LET g == GCD(Abs(n), Abs(d))
        sgn == IF d < 0 THEN 0 - 1 ELSE 1
    IN  <<(sgn * n) \div g, (sgn * d) \div g>>

NaN == <<0, 0>>
IsNum(a) == a[2] # 0
R(n) == <<n, 1>>
RMul(a, b) == Norm(a[1] * b[1], a[2] * b[2])
RDiv(a, b) == IF b[1] = 0 THEN NaN ELSE Norm(a[1] * b[2], a[2] * b[1])
RAdd(a, b) == Norm(a[1] * b[2] + b[1] * a[2], a[2] * b[2])
RSub(a, b) == Norm(a[1] * b[2] - b[1] * a[2], a[2] * b[2])
RLt(a, b) == a[1] * b[2] < b[1] * a[2]
RLe(a, b) == a[1] * b[2] <= b[1] * a[2]

(***************************************************************************)
(* Dilute.dilution_volumes                                                 *)
(***************************************************************************)
MaxRows == 2

\* sample concentrations, target concentrations and volume bounds tried
Concs == {0 - 3, 0, 1, 50}
DiluteConcs == {1, 5}
MinVols == {0, 2}
MaxVols == {2, 30}
MinTotals == {0, 10, 200}
\* what Labware.LABWARE_DB may hold for dest_type: nothing, an entry without
\* 'max_volume', an entry with a max_volume of 25 or 150
DestLabwares ==
    {[known |-> FALSE, has_max_volume |-> FALSE, max_volume |-> 0],
     [known |-> TRUE, has_max_volume |-> FALSE, max_volume |-> 0],
     [known |-> TRUE, has_max_volume |-> TRUE, max_volume |-> 25],
     [known |-> TRUE, has_max_volume |-> TRUE, max_volume |-> 150]}

ConcTables == UNION {[1 .. k -> Concs] : k \in 1 .. MaxRows}

\* a row of df_conc as read: only TECAN_sample_conc is set
NewRow(conc) ==
    [TECAN_sample_conc |-> R(conc),
     TECAN_total_volume |-> NaN,
     TECAN_sample_volume |-> NaN,
     TECAN_dilutant_volume |-> NaN,
     TECAN_final_conc |-> NaN]

\* calc_sample_volume without the floor at min_vol
calc_sample_volume_nofloor(row, dilute_conc_, min_vol_, max_vol_) ==
    IF RLe(row.TECAN_sample_conc, R(0)) THEN R(max_vol_)
    ELSE
      LET x == RDiv(RMul(R(dilute_conc_), row.TECAN_total_volume),
                    row.TECAN_sample_conc)
      IN  IF RLt(R(max_vol_), x) THEN R(max_vol_) ELSE x

\* lines 278-294
calc_sample_volume(row, dilute_conc_, min_vol_, max_vol_) ==
    IF RLe(row.TECAN_sample_conc, R(0)) THEN R(max_vol_)
    ELSE
      LET x == RDiv(RMul(R(dilute_conc_), row.TECAN_total_volume),
                    row.TECAN_sample_conc)
          x1 == IF RLt(R(max_vol_), x) THEN R(max_vol_) ELSE x
      IN  IF RLt(x1, R(min_vol_)) THEN R(min_vol_) ELSE x1

\* calc_dilutant_volume without the replacement of a negative value by 0
calc_dilutant_volume_noclamp(row) ==
    RSub(row.TECAN_total_volume, row.TECAN_sample_volume)

\* lines 296-302
calc_dilutant_volume(row) ==
    LET x == RSub(row.TECAN_total_volume, row.TECAN_sample_volume)
    IN  IF RLt(x, R(0)) THEN R(0) ELSE x

\* lines 304-310
calc_total_volume(row, min_vol_, max_vol_, dilute_conc_) ==
    LET x == RDiv(RMul(row.TECAN_sample_conc, R(min_vol_)), R(dilute_conc_))
    IN  IF RLt(R(max_vol_), x) THEN R(max_vol_) ELSE x

\* line 339: 0 if row['TECAN_sample_conc'] < 0 else row['TECAN_sample_conc']
clamp_conc(row) ==
    IF RLt(row.TECAN_sample_conc, R(0)) THEN R(0) ELSE row.TECAN_sample_conc

\* line 350: max(df_conc['TECAN_total_volume']) > max_well_vol
ExceedsWell(df, cap) ==
    \E k \in 1 .. Len(df) : RLt(R(cap), df[k].TECAN_total_volume)

\* df_conc[col] = vals, vals being what df_conc.apply(f, axis=1) returned
SetColumn(df, col, vals) == [k \in 1 .. Len(df) |-> [df[k] EXCEPT ![col] = vals[k]]]

MMIdle ==
    /\ pc = "idle" /\ err = "none" /\ df_map_n = 0 /\ mm_volume = 0
    /\ multi_disp = 0 /\ tube_max_vol = 0
    /\ channels = [c \in Channels |-> <<>>]
    /\ i = 0 /\ channel = 0 /\ total_vol_sum = 0 /\ gwl = <<>>

\* the state on entry to dilution_volumes
InitDil ==
    /\ dpc = "lookup"
    /\ derr = "none"
    /\ sample_conc_in \in ConcTables
    /\ df_conc = [k \in 1 .. Len(sample_conc_in) |-> NewRow(sample_conc_in[k])]
    /\ dilute_conc \in DiluteConcs
    /\ min_vol \in MinVols
    /\ max_vol \in MaxVols
    /\ min_vol <= max_vol
    /\ min_total \in MinTotals
    /\ dest_labware \in DestLabwares
    /\ max_well_vol = 0
    /\ MMIdle
    /\ ExtIdle

DilParams == <<dilute_conc, min_vol, max_vol, min_total, dest_labware, sample_conc_in>>

\* lines 326-336: the lookup of the destination labware's max_volume
LookupMaxVolume ==
    /\ dpc = "lookup"
    /\ IF ~dest_labware.known \/ ~dest_labware.has_max_volume
       THEN /\ dpc' = "error"
            /\ derr' = "ValueError"
            /\ UNCHANGED max_well_vol
       ELSE /\ max_well_vol' = dest_labware.max_volume
            /\ dpc' = "clamp"
            /\ UNCHANGED derr
    /\ UNCHANGED <<df_conc, DilParams>>
    /\ UNCHANGED <<mmvars, extvars>>

\* lines 338-344: negative concentrations become zero
ClampConc ==
    /\ dpc = "clamp"
    /\ df_conc' = SetColumn(df_conc, "TECAN_sample_conc",
                            [k \in 1 .. Len(df_conc) |-> clamp_conc(df_conc[k])])
    /\ dpc' = "total"
    /\ UNCHANGED <<derr, max_well_vol, DilParams>>
    /\ UNCHANGED <<mmvars, extvars>>

\* lines 346-353: the provisional total volume and its check against the well
CalcTotal ==
    /\ dpc = "total"
    /\ LET f(row) == calc_total_volume(row, min_vol, max_vol, dilute_conc)
           df == SetColumn(df_conc, "TECAN_total_volume",
                           [k \in 1 .. Len(df_conc) |-> f(df_conc[k])])
       IN  /\ df_conc' = df
           /\ IF ExceedsWell(df, max_well_vol)
              THEN dpc' = "error" /\ derr' = "ValueError"
              ELSE dpc' = "raise" /\ UNCHANGED derr
    /\ UNCHANGED <<max_well_vol, DilParams>>
    /\ UNCHANGED <<mmvars, extvars>>

\* lines 355-356: totals below min_total are raised to min_total
RaiseTotal ==
    /\ dpc = "raise"
    /\ LET f(row) == IF RLt(row.TECAN_total_volume, R(min_total))
                     THEN R(min_total) ELSE row.TECAN_total_volume
       IN  df_conc' = SetColumn(df_conc, "TECAN_total_volume",
                                [k \in 1 .. Len(df_conc) |-> f(df_conc[k])])
    /\ dpc' = "sample"
    /\ UNCHANGED <<derr, max_well_vol, DilParams>>
    /\ UNCHANGED <<mmvars, extvars>>

\* lines 357-360
CalcSample ==
    /\ dpc = "sample"
    /\ LET f(row) == calc_sample_volume(row, dilute_conc, min_vol, max_vol)
       IN  df_conc' = SetColumn(df_conc, "TECAN_sample_volume",
                                [k \in 1 .. Len(df_conc) |-> f(df_conc[k])])
    /\ dpc' = "dilutant"
    /\ UNCHANGED <<derr, max_well_vol, DilParams>>
    /\ UNCHANGED <<mmvars, extvars>>

\* lines 361-362
CalcDilutant ==
    /\ dpc = "dilutant"
    /\ df_conc' = SetColumn(df_conc, "TECAN_dilutant_volume",
                            [k \in 1 .. Len(df_conc) |-> calc_dilutant_volume(df_conc[k])])
    /\ dpc' = "update"
    /\ UNCHANGED <<derr, max_well_vol, DilParams>>
    /\ UNCHANGED <<mmvars, extvars>>

\* lines 363-365: total = sample volume + dilutant volume
UpdateTotal ==
    /\ dpc = "update"
    /\ LET f(row) == RAdd(row.TECAN_sample_volume, row.TECAN_dilutant_volume)
       IN  df_conc' = SetColumn(df_conc, "TECAN_total_volume",
                                [k \in 1 .. Len(df_conc) |-> f(df_conc[k])])
    /\ dpc' = "final"
    /\ UNCHANGED <<derr, max_well_vol, DilParams>>
    /\ UNCHANGED <<mmvars, extvars>>

\* line 367: conc * sample volume / total volume
final_conc(row) ==
    RDiv(RMul(row.TECAN_sample_conc, row.TECAN_sample_volume), row.TECAN_total_volume)

\* lines 366-380: the final concentration, then the table is returned (the
\* warnings printed at 370-377 change nothing).  With a total of 0 the division
\* yields nan on numpy floats and raises ZeroDivisionError on Python floats.
CalcFinal ==
    /\ dpc = "final"
    /\ \/ /\ df_conc' = SetColumn(df_conc, "TECAN_final_conc",
                                  [k \in 1 .. Len(df_conc) |-> final_conc(df_conc[k])])
          /\ dpc' = "returned"
          /\ UNCHANGED derr
       \/ /\ \E k \in 1 .. Len(df_conc) : df_conc[k].TECAN_total_volume = R(0)
          /\ dpc' = "error"
          /\ derr' = "ZeroDivisionError"
          /\ UNCHANGED df_conc
    /\ UNCHANGED <<max_well_vol, DilParams>>
    /\ UNCHANGED <<mmvars, extvars>>

NextDil ==
    \/ LookupMaxVolume
    \/ ClampConc
    \/ CalcTotal
    \/ RaiseTotal
    \/ CalcSample
    \/ CalcDilutant
    \/ UpdateTotal
    \/ CalcFinal

SpecDil == InitDil /\ [][NextDil]_vars

(***************************************************************************)
(* Map2Robot.pip_water (lines 632-674).  Volumes in tenths of a microlitre. *)
(***************************************************************************)
MaxWaterRows == 3

\* the TECAN_sample_rxn_volume values of the model (1.0, 9.9 and 12.0 ul)
SampVolumes == {10, 99, 120}
PcrVolumes == {250}
PrmVolumes == {20}
WaterTables == UNION {[1 .. k -> SampVolumes] : k \in 0 .. MaxWaterRows}

\* the water need without the primer volume
w_need_noprimer(pcr_volume_, samp_volume, mm_volume_, prm_volume_) ==
    pcr_volume_ - (samp_volume + mm_volume_)

\* line 642
w_need(pcr_volume_, samp_volume, mm_volume_, prm_volume_) ==
    pcr_volume_ - (samp_volume + mm_volume_ + prm_volume_)

\* lines 652-659: the Aspirate from the water tube
WaterAspirate(vol) ==
    [cmd |-> "A", RackLabel |-> "PCR water tube", Position |-> 1, Volume |-> vol,
     LiquidClass |-> water.liq_cls]

\* lines 661-668: the Dispense into the destination of row `row`
WaterDispense(row, vol) ==
    [cmd |-> "D", row |-> row, Volume |-> vol, LiquidClass |-> water.liq_cls]

\* the liquid classes a caller asks for (parameter liq_cls)
RequestedLiqCls == {"Water Free Single", "Water Free Multi"}

\* the state on entry to pip_water
InitWater ==
    /\ \E t \in WaterTables, p \in PcrVolumes, m \in MMVolumes, q \in PrmVolumes,
          c \in RequestedLiqCls :
          water = [pc |-> "comment", err |-> "none", samp |-> t,
                   pcr_volume |-> p, mm_volume |-> m, prm_volume |-> q,
                   liq_cls |-> c,
                   i |-> 0, water_volume |-> <<>>,
                   TECAN_water_rxn_volume |-> <<>>, gwl |-> <<>>]
    /\ MMIdle /\ DilIdle
    /\ command = Idle /\ reorder = Idle /\ pip = Idle /\ MoreIdle

notwater == <<mmvars, dilvars, command, reorder, pip, morevars>>

\* line 636: gwl.add(Fluent.Comment('Water'))
WaterComment ==
    /\ water.pc = "comment"
    /\ water' = [water EXCEPT !.gwl = Append(@, Comment), !.pc = "calc"]
    /\ UNCHANGED notwater

\* lines 640-644: one pass of the loop that calculates the water volumes
WaterCalc ==
    /\ water.pc = "calc"
    /\ water.i < Len(water.samp)
    /\ LET need == w_need(water.pcr_volume, water.samp[water.i + 1],
                           water.mm_volume, water.prm_volume)
       IN  IF need >= 0
           THEN water' = [water EXCEPT !.water_volume = Append(@, need),
                                       !.i = @ + 1]
           ELSE water' = [water EXCEPT !.pc = "error", !.err = "AssertionError"]
    /\ UNCHANGED notwater

\* line 645: df_map['TECAN_water_rxn_volume'] = water_volume
WaterAssign ==
    /\ water.pc = "calc"
    /\ water.i = Len(water.samp)
    /\ water' = [water EXCEPT !.TECAN_water_rxn_volume = water.water_volume,
                               !.i = 0, !.pc = "emit"]
    /\ UNCHANGED notwater

\* lines 651-671: one pass of the loop that adds Aspirate, Dispense, Waste
WaterEmit ==
    /\ water.pc = "emit"
    /\ water.i < Len(water.samp)
    /\ water' = [water EXCEPT
          !.gwl = @ \o <<WaterAspirate(water.water_volume[water.i + 1]),
                         WaterDispense(water.i, water.water_volume[water.i + 1]),
                         Waste>>,
          !.i = @ + 1]
    /\ UNCHANGED notwater

\* line 674: gwl.add(Fluent.Break())
WaterBreak ==
    /\ water.pc = "emit"
    /\ water.i = Len(water.samp)
    /\ water' = [water EXCEPT !.gwl = Append(@, Break), !.pc = "done"]
    /\ UNCHANGED notwater

NextWater ==
    \/ WaterComment
    \/ WaterCalc
    \/ WaterAssign
    \/ WaterEmit
    \/ WaterBreak

SpecWater == InitWater /\ [][NextWater]_vars

(***************************************************************************)
(* Fluent.py: the command classes and their attributes.  An object is a    *)
(* function from attribute names to values; None is the string "None".     *)
(***************************************************************************)
MaxAssign == 2
MaxDest == 2

None == "None"

\* lines 23-39
psbl_liq_cls ==
    {"Water Free Multi", "Water Free Multi No-cLLD",
     "Water Free Single", "Water Free Single No-cLLD",
     "MasterMix Free Multi", "MasterMix Free Multi No-cLLD",
     "MasterMix Free Single", "MasterMix Free Single No-cLLD",
     "Ethanol Free Multi",
     "Ethanol Free Single",
     "DMSO Free Multi",
     "DMSO Free Single",
     "Serum Free Multi",
     "Serum Free Single",
     "Water Contact Wet Multi", "Water Contact Wet Multi No-cLLD",
     "Water Contact Wet Single", "Water Contact Wet Single No-cLLD",
     "Water Mix", "Water Mix No-cLLD"}

\* lines 17-21
xstr(x) == IF x = None THEN "" ELSE x

CommandClasses == {"asp_disp", "aspirate", "dispense", "multi_disp",
                   "reagent_distribution"}

\* values a caller assigns to LiquidClass
LiqClsInputs == {"Water Free Single", "MasterMix Free Multi",
                 "Water Contact Wet Single No-cLLD", "Water", "water free single"}

\* values a caller assigns as a position: int(value) gives .int, or raises
\* ValueError when the value is no number
NotANumber == [ok |-> FALSE, int |-> 0]
PosInputs == {[ok |-> TRUE, int |-> n] : n \in {0 - 3, 0, 1, 96}} \cup {NotANumber}
DestPosInputs == UNION {[1 .. k -> PosInputs] : k \in 0 .. MaxDest}

\* lines 80-81: the parameters asp_disp.__init__ requires besides self
asp_disp_init_params ==
    <<"RackLabel", "RackID", "RackType", "Position", "TubeID", "Volume">>

\* lines 135 and 141: the arguments aspirate.__init__ and dispense.__init__
\* pass to asp_disp.__init__ besides self
subclass_init_args == <<>>

\* a call of a function with the wrong number of arguments raises TypeError
CallRaises(params, args) == Len(args) # Len(params)

\* aspirate() and dispense(), lines 133-142
SubclassInitRaises == CallRaises(asp_disp_init_params, subclass_init_args)

\* lines 82-97: the attributes set by asp_disp.__init__
asp_disp_new(id) ==
    [x \in {"_ID", "RackLabel", "RackID", "RackType", "Position", "TubeID",
            "Volume", "LiquidClass", "TipType", "TipMask"} |->
        CASE x = "_ID" -> id
          [] x = "Position" -> 1
          [] x = "LiquidClass" -> "Water Free Single"
          [] OTHER -> None]

\* lines 93-96
asp_disp_key_order ==
    <<"_ID", "RackLabel", "RackID", "RackType", "Position", "TubeID", "Volume",
      "LiquidClass", "TipType", "TipMask">>

\* lines 170-187: the attributes set by multi_disp.__init__
multi_disp_new ==
    [x \in {"_ID", "SrcRackLabel", "SrcRackID", "SrcRackType", "SrcPosition",
            "DestRackLabel", "DestRackID", "DestRackType", "DestPositions",
            "Volume", "TipType", "LiquidClass", "NoOfMultiDisp",
            "Labware_tracker"} |->
        CASE x = "_ID" -> "R"
          [] x = "SrcPosition" -> 1
          [] x \in {"DestRackLabel", "DestRackID", "DestRackType"} -> <<>>
          [] x = "DestPositions" -> <<1>>
          [] x = "Volume" -> 1
          [] x = "LiquidClass" -> "Water Free Multi"
          [] x = "NoOfMultiDisp" -> 2
          [] OTHER -> None]

\* lines 332-352: the attributes set by reagent_distribution.__init__
reagent_distribution_new ==
    [x \in {"_ID", "SrcRackLabel", "SrcRackID", "SrcRackType", "SrcPosStart",
            "SrcPosEnd", "DestRackLabel", "DestRackID", "DestRackType",
            "DestPositions", "DestPosEnd", "Volume", "LiquidClass",
            "NoOfDiTiReuses", "NoOfMultiDisp", "Direction",
            "ExcludedDestWell"} |->
        CASE x = "_ID" -> "R"
          [] x \in {"SrcPosStart", "SrcPosEnd", "DestPositions", "DestPosEnd",
                    "Volume", "NoOfDiTiReuses"} -> 1
          [] x = "LiquidClass" -> "Water Free Multi"
          [] x = "NoOfMultiDisp" -> 5
          [] x = "Direction" -> 0
          [] OTHER -> None]

\* lines 353-359
reagent_distribution_key_order ==
    <<"_ID", "SrcRackLabel", "SrcRackID", "SrcRackType", "SrcPosStart",
      "SrcPosEnd", "DestRackLabel", "DestRackID", "DestRackType",
      "DestPosStart", "DestPosEnd", "Volume", "LiquidClass", "NoOfDiTiReuses",
      "NoOfMultiDisp", "Direction", "ExcludedDestWell">>

\* the classes whose LiquidClass is a property with a validating setter
\* (lines 121-130 and 274-283); reagent_distribution sets a plain attribute
HasLiquidClassSetter(cls) == cls \in {"asp_disp", "aspirate", "dispense", "multi_disp"}

NoAssignment == [attr |-> "none", value |-> None, raised |-> "none", before |-> None]

\* a caller is about to construct a command object
InitAttr ==
    /\ \E c \in CommandClasses :
          command = [pc |-> "new", cls |-> c, obj |-> None, err |-> "none",
                     n |-> 0, last |-> NoAssignment, line |-> <<>>]
    /\ MMIdle /\ DilIdle
    /\ water = Idle /\ reorder = Idle /\ pip = Idle /\ MoreIdle

notcommand == <<mmvars, dilvars, water, reorder, pip, morevars>>

\* the constructor call: asp_disp(...) with its six arguments, aspirate(),
\* dispense(), multi_disp(), reagent_distribution()
Construct ==
    /\ command.pc = "new"
    /\ IF command.cls \in {"aspirate", "dispense"} /\ SubclassInitRaises
       THEN command' = [command EXCEPT !.pc = "error", !.err = "TypeError"]
       ELSE command' = [command EXCEPT
              !.pc = "ready",
              !.obj = CASE command.cls = "asp_disp" -> asp_disp_new("")
                        [] command.cls = "aspirate" -> asp_disp_new("A")
                        [] command.cls = "dispense" -> asp_disp_new("D")
                        [] command.cls = "multi_disp" -> multi_disp_new
                        [] OTHER -> reagent_distribution_new]
    /\ UNCHANGED notcommand

\* obj.LiquidClass = value
SetLiquidClass ==
    /\ command.pc = "ready"
    /\ command.n < MaxAssign
    /\ \E value \in LiqClsInputs :
          LET before == command.obj["LiquidClass"]
              raises == HasLiquidClassSetter(command.cls) /\ value \notin psbl_liq_cls
          IN  command' = [command EXCEPT
                !.n = @ + 1,
                !.obj = IF raises THEN @ ELSE [@ EXCEPT !["LiquidClass"] = value],
                !.last = [attr |-> "LiquidClass", value |-> value,
                          raised |-> IF raises THEN "TypeError" ELSE "none",
                          before |-> before]]
    /\ UNCHANGED notcommand

\* lines 117-119: self._Position = int(value)
asp_disp_Position_raises(value) == IF ~value.ok THEN "ValueError" ELSE "none"

\* obj.Position = value on an asp_disp, aspirate or dispense object
SetPosition ==
    /\ command.pc = "ready"
    /\ command.n < MaxAssign
    /\ command.cls \in {"asp_disp", "aspirate", "dispense"}
    /\ \E value \in PosInputs :
          LET raised == asp_disp_Position_raises(value)
          IN  command' = [command EXCEPT
                !.n = @ + 1,
                !.obj = IF raised # "none" THEN @
                        ELSE [@ EXCEPT !["Position"] = value.int],
                !.last = [attr |-> "Position", value |-> value, raised |-> raised,
                          before |-> command.obj["Position"]]]
    /\ UNCHANGED notcommand

\* min(values) of line 296 for a non-empty sequence of integers
MinOf(values) == CHOOSE m \in {values[k] : k \in 1 .. Len(values)} :
                     \A k \in 1 .. Len(values) : m <= values[k]

\* lines 289-297: what the setter of DestPositions raises for `values`
DestPositions_raises(values) ==
    IF \E k \in 1 .. Len(values) : ~values[k].ok THEN "ValueError"
    ELSE IF values = <<>> THEN "ValueError"
    ELSE IF ~(MinOf([k \in 1 .. Len(values) |-> values[k].int]) > 0)
         THEN "AssertionError"
    ELSE "none"

\* obj.DestPositions = values on a multi_disp object
SetDestPositions ==
    /\ command.pc = "ready"
    /\ command.n < MaxAssign
    /\ command.cls = "multi_disp"
    /\ \E values \in DestPosInputs :
          LET raised == DestPositions_raises(values)
          IN  command' = [command EXCEPT
                !.n = @ + 1,
                !.obj = IF raised # "none" THEN @
                        ELSE [@ EXCEPT !["DestPositions"] =
                                 [k \in 1 .. Len(values) |-> values[k].int]],
                !.last = [attr |-> "DestPositions", value |-> values,
                          raised |-> raised,
                          before |-> command.obj["DestPositions"]]]
    /\ UNCHANGED notcommand

\* the attributes that hold an integer in the objects of this model
IntAttrs == {"Position", "SrcPosStart", "SrcPosEnd", "DestPositions", "DestPosEnd",
             "Volume", "NoOfDiTiReuses", "NoOfMultiDisp", "Direction"}

\* lines 101-105: str(xstr(getattr(self, key)))
FieldOf(cls, obj, key) ==
    IF key = "Position" \/ (cls = "reagent_distribution" /\ key \in IntAttrs)
    THEN ToString(obj[key])
    ELSE xstr(obj[key])

\* key_order of the object's class
KeyOrder(cls) ==
    IF cls = "reagent_distribution" THEN reagent_distribution_key_order
    ELSE asp_disp_key_order

\* lines 99-107 and 367-375: cmd() of asp_disp and of reagent_distribution;
\* getattr of a name the object does not have raises AttributeError.  The
\* result is kept as the sequence of fields that ';'.join writes.
CommandCmd ==
    /\ command.pc = "ready"
    /\ command.cls # "multi_disp"
    /\ LET keys == KeyOrder(command.cls)
       IN  IF \E k \in 1 .. Len(keys) : keys[k] \notin DOMAIN command.obj
           THEN command' = [command EXCEPT !.pc = "error", !.err = "AttributeError"]
           ELSE command' = [command EXCEPT
                  !.pc = "serialized",
                  !.line = [k \in 1 .. Len(keys) |->
                              FieldOf(command.cls, command.obj, keys[k])]]
    /\ UNCHANGED notcommand

NextAttr ==
    \/ Construct
    \/ SetLiquidClass
    \/ SetPosition
    \/ SetDestPositions
    \/ CommandCmd

SpecAttr == InitAttr /\ [][NextAttr]_vars

(***************************************************************************)
(* reorder_384well of Dilute.py (lines 400-410; Map2Robot.py 406-416 is    *)
(* the same function) and _reorder_384well of Utils.py (lines 116-126).    *)
(* A table is a sequence of rows; a row holds its position and, as `id`,   *)
(* its index in the table passed in, which stands for its other columns.   *)
(***************************************************************************)
MaxReorderRows == 4
MaxPosition == 4

PositionLists == UNION {[1 .. k -> 1 .. MaxPosition] : k \in 0 .. MaxReorderRows}
TableOf(positions) == [k \in 1 .. Len(positions) |-> [pos |-> positions[k], id |-> k]]

\* what gwl.db.get_labware_wells returns for the labware type of the table
WellCounts == {96, 384}

\* line 406: x % 2 == 0
IS_EVEN(row) == row.pos % 2 = 0
IsOddRow(row) == row.pos % 2 # 0

\* the sort key without the position column
ParityKeyLe(a, b) == IS_EVEN(a) => IS_EVEN(b)

\* line 407: by=['TECAN_sort_IS_EVEN', reorder_col], False sorting before True
SortKeyLe(a, b) ==
    \/ ~IS_EVEN(a) /\ IS_EVEN(b)
    \/ IS_EVEN(a) = IS_EVEN(b) /\ a.pos <= b.pos

\* a stable sort: row is put behind every row of the sorted sequence s whose
\* key is not greater
RECURSIVE InsertParity(_, _)
InsertParity(s, row) ==
    IF s = <<>> THEN <<row>>
    ELSE IF ParityKeyLe(s[Len(s)], row) THEN Append(s, row)
    ELSE Append(InsertParity(SubSeq(s, 1, Len(s) - 1), row), s[Len(s)])

RECURSIVE InsertRow(_, _)
InsertRow(s, row) ==
    IF s = <<>> THEN <<row>>
    ELSE IF SortKeyLe(s[Len(s)], row) THEN Append(s, row)
    ELSE Append(InsertRow(SubSeq(s, 1, Len(s) - 1), row), s[Len(s)])

RECURSIVE sort_values_by_parity(_)
sort_values_by_parity(df) ==
    IF df = <<>> THEN <<>>
    ELSE InsertParity(sort_values_by_parity(SubSeq(df, 1, Len(df) - 1)), df[Len(df)])

\* line 407: df.sort_values(by=[...]), a stable sort on the two keys
RECURSIVE sort_values(_)
sort_values(df) ==
    IF df = <<>> THEN <<>>
    ELSE InsertRow(sort_values(SubSeq(df, 1, Len(df) - 1)), df[Len(df)])

\* Utils.py lines 124-125: pd.concat of the odd rows and the even rows
concat_odd_even(df) == SelectSeq(df, IsOddRow) \o SelectSeq(df, IS_EVEN)

\* a table is passed to one of the two functions
InitReorder ==
    /\ \E p \in PositionLists, f \in {"Dilute", "Utils"}, w \in WellCounts :
          /\ f = "Dilute" => w = 384
          /\ reorder = [pc |-> "call", impl |-> f, n_wells |-> w,
                        df_in |-> TableOf(p), df |-> TableOf(p)]
    /\ MMIdle /\ DilIdle
    /\ water = Idle /\ command = Idle /\ pip = Idle /\ MoreIdle

notreorder == <<mmvars, dilvars, water, command, pip, morevars>>

\* Dilute.reorder_384well, lines 400-410 (the helper column is dropped and
\* the index renumbered: the result is the sorted sequence of rows)
ReorderDilute ==
    /\ reorder.pc = "call"
    /\ reorder.impl = "Dilute"
    /\ reorder' = [reorder EXCEPT !.df = sort_values(reorder.df), !.pc = "returned"]
    /\ UNCHANGED notreorder

\* Utils._reorder_384well, lines 116-126
ReorderUtils ==
    /\ reorder.pc = "call"
    /\ reorder.impl = "Utils"
    /\ reorder' = [reorder EXCEPT
          !.df = IF reorder.n_wells = 384 THEN concat_odd_even(reorder.df) ELSE @,
          !.pc = "returned"]
    /\ UNCHANGED notreorder

NextReorder ==
    \/ ReorderDilute
    \/ ReorderUtils

SpecReorder == InitReorder /\ [][NextReorder]_vars

(***************************************************************************)
(* Fluent.multi_disp.cmd (Fluent.py 195-272), Dilute.pip_dilutant (Dilute.py *)
(* 413-444) and Dilute.pip_samples (447-474).  Volumes are integers        *)
(* counted in thousandths of a microlitre (2.7 ul = 2700).  A written line *)
(* is a record whose `tag` is the first field of the line; the empty line  *)
(* has the tag "".                                                         *)
(***************************************************************************)
MaxPipRows == 3
MaxNoOfMultiDisp == 2

\* num / den rounded to the nearest integer, halves to the even neighbour
\* (Python's round), for num >= 0 and den > 0
RoundHalfEven(num, den) ==
    LET q == num \div den
        r == num % den
    IN  IF 2 * r < den THEN q
        ELSE IF 2 * r > den THEN q + 1
        ELSE IF q % 2 = 0 THEN q ELSE q + 1

\* round(v, 2) of a volume
round2(v) == IF v >= 0 THEN RoundHalfEven(v, 10) * 10
             ELSE 0 - RoundHalfEven(0 - v, 10) * 10

\* line 258: round(total * 1.05, 1)
asp_volume(total) == RoundHalfEven(total * 105, 10000) * 100

\* the diluent volumes of the model: 0, 0.004, 2.7, 30.0 and 902.0 ul
VolInputs == {0, 4, 2700, 30000, 902000}
\* the sample volumes of the model: 2.0 ul
SampleVolInputs == {2000}
DestLabels == {"plate1", "plate2"}

PipRows == [TECAN_dilutant_volume : VolInputs,
            TECAN_sample_volume : SampleVolInputs,
            TECAN_dest_labware_name : DestLabels]
PipTables == UNION {[1 .. k -> PipRows] : k \in 0 .. MaxPipRows}
\* largest diluent volumes from 0.5 ul to 900 ul in steps of 0.5 ul, and the
\* volumes next to the limits at which pip_dilutant changes the tip size
LargestVolInputs ==
    {500 * k : k \in 1 .. 1800} \cup {1, 22499, 22501, 89999, 90001, 899999}
\* tables of one row
OneRowTables ==
    {<<[TECAN_dilutant_volume |-> v, TECAN_sample_volume |-> 2000,
        TECAN_dest_labware_name |-> "plate1"]>> : v \in LargestVolInputs}

\* the labware of a command as Labware.labware_tracker.add records it
LabwareOf(x) == <<x.RackLabel, x.RackType>>

\* Labware.labware_tracker.tip_for_volume: the tip size for a volume
\* (50, 200 or 1000 ul tips; 0 when no tip holds the volume)
tip_for_volume(v) ==
    IF v <= 45000 THEN 50
    ELSE IF v <= 180000 THEN 200
    ELSE IF v <= 900000 THEN 1000
    ELSE 0

NoTip == 0 - 1

\* the line asp_disp.cmd() returns for an aspirate or dispense object
CmdLine(id, label, type, position, volume, liq_cls, tip) ==
    [tag |-> id, RackLabel |-> label, RackType |-> type, Position |-> position,
     Volume |-> volume, LiquidClass |-> liq_cls, TipType |-> tip]

\* line 262: 'W;' (line 473 of Dilute.py)
WasteLine == [tag |-> "W"]
\* Dilute.py lines 432 and 450
CommentLine(text) == [tag |-> "C", text |-> text]
\* a line without any character
EmptyLine == [tag |-> ""]

\* lines 196-200: self.Volumes
Volumes(md) ==
    IF md.VolumeIsIterable THEN md.Volume
    ELSE [k \in 1 .. Len(md.DestPositions) |-> md.Volume]

\* lines 216-231: the loop that determines total_asp_volume of a cycle
RECURSIVE CountAspVolume(_, _, _, _)
CountAspVolume(md, sample_cnt_tmp, dispenses_tmp, total_asp_volume) ==
    LET cnt == sample_cnt_tmp + 1
        disp_volume == round2(Volumes(md)[cnt])
    IN  IF cnt > Len(md.DestPositions) THEN total_asp_volume
        ELSE IF dispenses_tmp >= md.NoOfMultiDisp THEN total_asp_volume
        ELSE IF Volumes(md)[cnt] <= 0
             THEN CountAspVolume(md, cnt, dispenses_tmp, total_asp_volume)
        ELSE IF disp_volume > 0
             THEN CountAspVolume(md, cnt, dispenses_tmp + 1,
                                 total_asp_volume + disp_volume)
        ELSE CountAspVolume(md, cnt, dispenses_tmp, total_asp_volume)

\* lines 242-249: the dispense object made for destination cnt
NewDispense(md, cnt, total_asp_volume) ==
    CmdLine("D", md.DestRackLabel[cnt], md.DestRackType[cnt], md.DestPositions[cnt],
            round2(Volumes(md)[cnt]), md.LiquidClass,
            IF md.Labware_tracker THEN tip_for_volume(total_asp_volume) ELSE NoTip)

\* lines 233-251: the loop that loads the dispenses of a cycle; `disp` is
\* the dispense object made last (a variable of cmd that outlives the loop)
RECURSIVE LoadDispenses(_, _, _, _, _)
LoadDispenses(md, sample_cnt, dispenses, disp, total_asp_volume) ==
    LET cnt == sample_cnt + 1
        new == NewDispense(md, cnt, total_asp_volume)
    IN  IF cnt > Len(md.DestPositions)
        THEN [sample_cnt |-> cnt, dispenses |-> dispenses, disp |-> disp]
        ELSE IF Len(dispenses) >= md.NoOfMultiDisp
        THEN [sample_cnt |-> cnt - 1, dispenses |-> dispenses, disp |-> disp]
        ELSE IF Volumes(md)[cnt] <= 0
        THEN LoadDispenses(md, cnt, dispenses, disp, total_asp_volume)
        ELSE IF new.Volume > 0
        THEN LoadDispenses(md, cnt, Append(dispenses, new), <<new>>, total_asp_volume)
        ELSE LoadDispenses(md, cnt, dispenses, <<new>>, total_asp_volume)

RECURSIVE SumVolumes(_)
SumVolumes(lines) ==
    IF lines = <<>> THEN 0 ELSE lines[1].Volume + SumVolumes(Tail(lines))

\* lines 203-269: the cycles of cmd() from destination sample_cnt + 1 on.
\* st holds steps, the labware passed to Labware_tracker.add (adds), the
\* volumes passed to tip_for_volume for the aspirates (tips) and disp.
RECURSIVE Cycles(_, _, _)
Cycles(md, sample_cnt, st) ==
    LET total_asp_volume == CountAspVolume(md, sample_cnt, 0, 0)
        loaded == LoadDispenses(md, sample_cnt, <<>>, st.disp, total_asp_volume)
        asp == CmdLine("A", md.SrcRackLabel, md.SrcRackType, md.SrcPosition,
                       asp_volume(SumVolumes(loaded.dispenses)), md.LiquidClass,
                       IF md.Labware_tracker THEN tip_for_volume(total_asp_volume)
                       ELSE NoTip)
    IN  IF Len(loaded.dispenses) <= 0 THEN st
        ELSE Cycles(md, loaded.sample_cnt,
                    [steps |-> st.steps \o <<asp>> \o loaded.dispenses \o <<WasteLine>>,
                     adds |-> IF md.Labware_tracker
                              THEN st.adds \o <<LabwareOf(asp), LabwareOf(loaded.disp[1])>>
                              ELSE st.adds,
                     tips |-> Append(st.tips, total_asp_volume),
                     disp |-> loaded.disp])

\* cmd() with the constructor calls of lines 205 and 241 succeeding
multi_disp_cmd_constructed(md) ==
    [raised |-> "none"] @@
    Cycles(md, 0, [steps |-> <<>>, adds |-> <<>>, tips |-> <<>>, disp |-> <<>>])

\* lines 195-272: what cmd() raises and, if nothing, the lines it returns
\* (steps, to be joined by '\n') and what it passed to the tracker.  The
\* first statement of the outer loop is asp = aspirate() (line 205).
multi_disp_cmd(md) ==
    IF SubclassInitRaises
    THEN [raised |-> "TypeError", steps |-> <<>>, adds |-> <<>>, tips |-> <<>>,
          disp |-> <<>>]
    ELSE multi_disp_cmd_constructed(md)

\* the lines of the text MD.cmd() + '\n' (Dilute.py line 444): the steps, or
\* one empty line when cmd() returned the empty string
WrittenLines(steps) == IF steps = <<>> THEN <<EmptyLine>> ELSE steps

\* Dilute.py line 420: max(df_conc.TECAN_dilutant_volume) of a non-empty table
RECURSIVE MaxVolume(_)
MaxVolume(df) ==
    IF Len(df) = 1 THEN df[1].TECAN_dilutant_volume
    ELSE LET m == MaxVolume(Tail(df))
         IN  IF df[1].TECAN_dilutant_volume > m THEN df[1].TECAN_dilutant_volume
             ELSE m

\* a limit above every volume of the model
NoTipLimit == 1000 * 1000
\* Dilute.py line 422: the largest volume a tip holds (900 ul)
TipLimit == 900000

\* a count that rounds the quotient up
n_disp_of_ceil(max_vol_) ==
    IF max_vol_ * 2 < 45000 THEN (45000 + max_vol_ - 1) \div max_vol_
    ELSE IF max_vol_ * 2 < 180000 THEN (180000 + max_vol_ - 1) \div max_vol_
    ELSE (900000 + max_vol_ - 1) \div max_vol_

\* Dilute.py lines 424-429
n_disp_of(max_vol_) ==
    IF max_vol_ * 2 < 45000 THEN 45000 \div max_vol_
    ELSE IF max_vol_ * 2 < 180000 THEN 180000 \div max_vol_
    ELSE 900000 \div max_vol_

\* Dilute.py lines 433-442: the multi_disp object pip_dilutant sets up; the
\* destination positions are those add_dest gave the rows (1, 2, ...)
DilutantMD(df, src_labware_name, src_labware_type, n_disp, tracked) ==
    [SrcRackLabel |-> src_labware_name, SrcRackType |-> src_labware_type,
     SrcPosition |-> 1,
     DestRackLabel |-> [k \in 1 .. Len(df) |-> df[k].TECAN_dest_labware_name],
     DestRackType |-> [k \in 1 .. Len(df) |-> "96 Well"],
     DestPositions |-> [k \in 1 .. Len(df) |-> k],
     Volume |-> [k \in 1 .. Len(df) |-> df[k].TECAN_dilutant_volume],
     VolumeIsIterable |-> TRUE,
     NoOfMultiDisp |-> n_disp,
     LiquidClass |-> "Water Free Multi",
     Labware_tracker |-> tracked]

PipNew(entry, pc0, df, md) ==
    [pc |-> pc0, entry |-> entry, err |-> "none", df |-> df, md |-> md,
     max_vol |-> 0, n_disp |-> 0, i |-> 0,
     out |-> <<>>, adds |-> <<>>, tips |-> <<>>, returned |-> <<>>,
     gwlFH |-> IF entry = "pip_dilutant" THEN "open" ELSE "unowned"]

\* a call of pip_dilutant followed by pip_samples (as in Dilute.main, lines
\* 136-144), a call of pip_samples alone, or a call of cmd() on a multi_disp
\* object whose attributes a caller has set (the setter of DestPositions
\* refuses an empty list)
InitPip ==
    /\ \/ \E df \in PipTables \cup OneRowTables :
             pip = PipNew("pip_dilutant", "max_vol", df, <<>>)
       \/ \E df \in PipTables : pip = PipNew("pip_samples", "samples", df, <<>>)
       \/ \E df \in PipTables \ {<<>>}, n \in 0 .. MaxNoOfMultiDisp, t \in BOOLEAN :
             pip = PipNew("cmd", "cmd", df,
                          <<DilutantMD(df, "trough", "Trough 100ml", n, t)>>)
    /\ MMIdle /\ DilIdle
    /\ water = Idle /\ command = Idle /\ reorder = Idle /\ MoreIdle

notpip == <<mmvars, dilvars, water, command, reorder, morevars>>

\* Dilute.py lines 420-423
PipMaxVol ==
    /\ pip.pc = "max_vol"
    /\ IF pip.df = <<>>
       THEN pip' = [pip EXCEPT !.pc = "error", !.err = "ValueError"]
       ELSE IF MaxVolume(pip.df) > TipLimit
       THEN pip' = [pip EXCEPT !.pc = "error", !.err = "ValueError",
                               !.max_vol = MaxVolume(pip.df)]
       ELSE pip' = [pip EXCEPT !.pc = "n_disp", !.max_vol = MaxVolume(pip.df)]
    /\ UNCHANGED notpip

\* Dilute.py lines 424-429; dividing by a max_vol of 0 raises
\* ZeroDivisionError on a Python float, and on a numpy float gives inf, of
\* which int() raises OverflowError
PipNDisp ==
    /\ pip.pc = "n_disp"
    /\ IF pip.max_vol = 0
       THEN \E e \in {"ZeroDivisionError", "OverflowError"} :
                pip' = [pip EXCEPT !.pc = "error", !.err = e]
       ELSE pip' = [pip EXCEPT !.pc = "comment", !.n_disp = n_disp_of(pip.max_vol)]
    /\ UNCHANGED notpip

\* Dilute.py lines 432-442
PipComment ==
    /\ pip.pc = "comment"
    /\ pip' = [pip EXCEPT !.pc = "write",
                          !.out = Append(@, CommentLine("Dilutant")),
                          !.md = <<DilutantMD(pip.df, "trough", "Trough 100ml",
                                              pip.n_disp, TRUE)>>]
    /\ UNCHANGED notpip

\* Dilute.py line 444: outFH.write(MD.cmd() + '\n'); pip_samples follows
PipWriteCmd ==
    /\ pip.pc = "write"
    /\ LET r == multi_disp_cmd(pip.md[1])
       IN  IF r.raised # "none"
           THEN pip' = [pip EXCEPT !.pc = "error", !.err = r.raised]
           ELSE pip' = [pip EXCEPT !.pc = "samples",
                                   !.out = @ \o WrittenLines(r.steps),
                                   !.adds = @ \o r.adds,
                                   !.tips = @ \o r.tips]
    /\ UNCHANGED notpip

\* a call of cmd() that never comes back
MultiDispCmdSpins ==
    /\ pip.pc = "cmd"
    /\ UNCHANGED vars

\* a call of cmd() by another caller
MultiDispCmd ==
    /\ pip.pc = "cmd"
    /\ LET r == multi_disp_cmd(pip.md[1])
       IN  IF r.raised # "none"
           THEN pip' = [pip EXCEPT !.pc = "error", !.err = r.raised]
           ELSE pip' = [pip EXCEPT !.pc = "done", !.returned = r.steps,
                                   !.adds = r.adds, !.tips = r.tips]
    /\ UNCHANGED notpip

\* Dilute.py line 450
SamplesComment ==
    /\ pip.pc = "samples"
    /\ pip' = [pip EXCEPT !.pc = "rows", !.i = 0,
                          !.out = Append(@, CommentLine("Samples"))]
    /\ UNCHANGED notpip

\* Dilute.py lines 452-474: one pass of the loop; its first statement is
\* asp = Fluent.aspirate()
SamplesRow ==
    /\ pip.pc = "rows"
    /\ pip.i < Len(pip.df)
    /\ LET row == pip.df[pip.i + 1]
           asp == CmdLine("A", "source", "96 Well", pip.i + 1,
                          round2(row.TECAN_sample_volume),
                          "Water Contact Wet Single No-cLLD", NoTip)
           disp == CmdLine("D", row.TECAN_dest_labware_name, "96 Well", pip.i + 1,
                           round2(row.TECAN_sample_volume),
                           "Water Contact Wet Single No-cLLD", NoTip)
       IN  IF SubclassInitRaises
           THEN pip' = [pip EXCEPT !.pc = "error", !.err = "TypeError"]
           ELSE pip' = [pip EXCEPT !.i = @ + 1,
                                   !.out = @ \o <<asp, disp, WasteLine>>,
                                   !.adds = @ \o <<LabwareOf(asp), LabwareOf(disp)>>]
    /\ UNCHANGED notpip

\* the loop of pip_samples has passed every row
SamplesDone ==
    /\ pip.pc = "rows"
    /\ pip.i = Len(pip.df)
    /\ pip' = [pip EXCEPT !.pc = "done"]
    /\ UNCHANGED notpip

\* Dilute.py line 136: the with-statement closes gwlFH when its block is
\* left, by the end of pip_samples or by an exception of either call
MainExit ==
    /\ pip.pc \in {"done", "error"}
    /\ pip.entry = "pip_dilutant"
    /\ pip.gwlFH = "open"
    /\ pip' = [pip EXCEPT !.gwlFH = "closed"]
    /\ UNCHANGED notpip

\* a second call of cmd() on the same multi_disp object in the same process
CmdAgain ==
    /\ pip.pc \in {"done", "error"}
    /\ pip.entry = "cmd"
    /\ rerun = Idle
    /\ rerun' = [pc |-> "second", ended |-> pip.pc, err |-> pip.err,
                 returned |-> pip.returned]
    /\ pip' = PipNew("cmd", "cmd", pip.df, pip.md)
    /\ UNCHANGED <<mmvars, dilvars, water, command, reorder, transfer, dest, handle>>

NextPip ==
    \/ CmdAgain
    \/ MainExit
    \/ PipMaxVol
    \/ PipNDisp
    \/ PipComment
    \/ PipWriteCmd
    \/ MultiDispCmd
    \/ SamplesComment
    \/ SamplesRow
    \/ SamplesDone

SpecPip == InitPip /\ [][NextPip]_vars

\* the interpreter keeps executing a call that can take a step
SpecPipFair == SpecPip /\ WF_vars(NextPip)

(***************************************************************************)
(* Utils.check_gwl (Utils.py 57-76) on the lines of a worklist file        *)
(***************************************************************************)
\* line 71
ValidTags == {"A", "D", "R", "W", "F", "C", "B"}

\* lines 66-73: what check_gwl raises for a file made of `lines`
check_gwl_raises(lines) ==
    IF \E k \in 1 .. Len(lines) : lines[k].tag = "" \/ lines[k].tag \notin ValidTags
    THEN "ValueError"
    ELSE "none"

(***************************************************************************)
(* Map2Robot.pip_primers / pip_primer (lines 542-598) and pip_samples      *)
(* (lines 601-629): one Aspirate, Dispense, Waste per row                  *)
(***************************************************************************)
MaxTransferRows == 3
\* Fluent.py line 89: the liquid class of a command object nobody assigned
DefaultLiquidClass == "Water Free Single"
\* the parameter prm_volume (default 0) in tenths of a ul
PrimerVolumes == {0} \cup PrmVolumes
\* column TECAN_sample_rxn_volume of tables of up to MaxTransferRows rows
TransferTables == UNION {[1 .. n -> SampVolumes] : n \in 0 .. MaxTransferRows}

\* lines 546-553 and 609-614
TransferAspirate(row, vol, liq_cls) ==
    [cmd |-> "A", row |-> row, Volume |-> vol, LiquidClass |-> liq_cls]
\* lines 556-563 of pip_primer: line 562 assigns asp.LiquidClass a second
\* time, disp.LiquidClass is never assigned
PrimerDispense(row, vol, liq_cls) ==
    [cmd |-> "D", row |-> row, Volume |-> vol, LiquidClass |-> DefaultLiquidClass]
\* lines 617-623 of pip_samples
SampleDispense(row, vol, liq_cls) ==
    [cmd |-> "D", row |-> row, Volume |-> vol, LiquidClass |-> liq_cls]

\* the state on entry to pip_primers or to pip_samples; vols[k] is the volume
\* of row k (prm_volume for every row of pip_primers)
InitTransfer ==
    /\ \/ \E n \in 0 .. MaxTransferRows, v \in PrimerVolumes, c \in RequestedLiqCls :
             transfer = [pc |-> "comment", entry |-> "pip_primers",
                         vols |-> [k \in 1 .. n |-> v], liq_cls |-> c,
                         i |-> 0, gwl |-> <<>>]
       \/ \E t \in TransferTables, c \in RequestedLiqCls :
             transfer = [pc |-> "comment", entry |-> "pip_samples",
                         vols |-> t, liq_cls |-> c, i |-> 0, gwl |-> <<>>]
    /\ MMIdle /\ DilIdle
    /\ water = Idle /\ command = Idle /\ reorder = Idle /\ pip = Idle
    /\ rerun = Idle /\ dest = Idle /\ handle = Idle

nottransfer == <<mmvars, dilvars, water, command, reorder, pip, rerun, dest, handle>>

\* lines 572 and 604: gwl.add(Fluent.Comment(...))
TransferComment ==
    /\ transfer.pc = "comment"
    /\ transfer' = [transfer EXCEPT !.gwl = Append(@, Comment), !.pc = "rows"]
    /\ UNCHANGED nottransfer

\* lines 590-595 with 546-566: one call of pip_primer
PrimerRow ==
    /\ transfer.pc = "rows"
    /\ transfer.entry = "pip_primers"
    /\ transfer.i < Len(transfer.vols)
    /\ LET v == transfer.vols[transfer.i + 1]
       IN  transfer' = [transfer EXCEPT
               !.gwl = @ \o <<TransferAspirate(transfer.i, v, transfer.liq_cls),
                              PrimerDispense(transfer.i, v, transfer.liq_cls),
                              Waste>>,
               !.i = @ + 1]
    /\ UNCHANGED nottransfer

\* lines 606-626: one pass of the loop of pip_samples
SampleRow ==
    /\ transfer.pc = "rows"
    /\ transfer.entry = "pip_samples"
    /\ transfer.i < Len(transfer.vols)
    /\ LET v == transfer.vols[transfer.i + 1]
       IN  transfer' = [transfer EXCEPT
               !.gwl = @ \o <<TransferAspirate(transfer.i, v, transfer.liq_cls),
                              SampleDispense(transfer.i, v, transfer.liq_cls),
                              Waste>>,
               !.i = @ + 1]
    /\ UNCHANGED nottransfer

\* lines 598 and 629: gwl.add(Fluent.Break())
TransferBreak ==
    /\ transfer.pc = "rows"
    /\ transfer.i = Len(transfer.vols)
    /\ transfer' = [transfer EXCEPT !.gwl = Append(@, Break), !.pc = "done"]
    /\ UNCHANGED nottransfer

NextTransfer ==
    \/ TransferComment
    \/ PrimerRow
    \/ SampleRow
    \/ TransferBreak

(***************************************************************************)
(* Map2Robot.check_args (lines 254-259) and Map2Robot.add_dest (346-404)   *)
(***************************************************************************)
MaxDestRxns == 30
\* what db.get_labware_wells returns for dest_type: plates of 6 and 24 wells
DestWellCounts == {6, 24}
\* a labware name: `base`, followed by ' ' and a number when plate > 0
DestName(base, plate) == [base |-> base, plate |-> plate]

\* line 378: round(df_dest.shape[0] / positions + 0.5, 0)
n_dest_plates_of(nrow, positions) ==
    RoundHalfEven(2 * nrow + positions, 2 * positions)

\* lines 389-390
dest_position_of(i_, dest_start, positions) ==
    IF (i_ + dest_start) % positions = 0 THEN positions
    ELSE (i_ + dest_start) % positions

\* line 394: round((i + dest_start) / positions + 0.499, 0)
dest_plate_of(i_, dest_start, positions) ==
    RoundHalfEven(1000 * (i_ + dest_start) + 499 * positions, 1000 * positions)

\* the state on entry to check_args; nrow is df_map.shape[0] * rxn_reps, the
\* samples of df_map have different names
InitDest ==
    /\ \E w \in DestWellCounts, n \in 0 .. MaxDestRxns :
          \E s \in 0 .. w + 1 :
             dest = [pc |-> "check_args", err |-> "none", positions |-> w,
                     dest_start |-> s, nrow |-> n, n_dest_plates |-> 0,
                     i |-> 0, df_dest |-> <<>>]
    /\ MMIdle /\ DilIdle
    /\ water = Idle /\ command = Idle /\ reorder = Idle /\ pip = Idle
    /\ rerun = Idle /\ transfer = Idle /\ handle = Idle

notdest == <<mmvars, dilvars, water, command, reorder, pip, rerun, transfer, handle>>

\* check_args lines 254-259
CheckDestStart ==
    /\ dest.pc = "check_args"
    /\ IF dest.dest_start < 1 \/ dest.dest_start > dest.positions
       THEN dest' = [dest EXCEPT !.pc = "error", !.err = "ValueError"]
       ELSE dest' = [dest EXCEPT !.pc = "plates"]
    /\ UNCHANGED notdest

\* add_dest lines 358-382
CountPlates ==
    /\ dest.pc = "plates"
    /\ dest' = [dest EXCEPT
          !.pc = "fill",
          !.n_dest_plates = n_dest_plates_of(dest.nrow, dest.positions)]
    /\ UNCHANGED notdest

\* lines 387-398: one pass of the loop
FillRow ==
    /\ dest.pc = "fill"
    /\ dest.i < dest.nrow
    /\ LET pos == dest_position_of(dest.i, dest.dest_start, dest.positions)
           name == IF dest.n_dest_plates > 1
                   THEN DestName("plate", dest_plate_of(dest.i, dest.dest_start,
                                                        dest.positions))
                   ELSE DestName("plate", 0)
       IN  dest' = [dest EXCEPT
              !.df_dest = Append(@, [TECAN_dest_labware_name |-> name,
                                     TECAN_dest_target_position |-> pos]),
              !.i = @ + 1]
    /\ UNCHANGED notdest

\* lines 400-406: the join and its two assertions
JoinDest ==
    /\ dest.pc = "fill"
    /\ dest.i = dest.nrow
    /\ IF dest.nrow = 0
       THEN dest' = [dest EXCEPT !.pc = "error", !.err = "AssertionError"]
       ELSE dest' = [dest EXCEPT !.pc = "done"]
    /\ UNCHANGED notdest

NextDest ==
    \/ CheckDestStart
    \/ CountPlates
    \/ FillRow
    \/ JoinDest

SpecDest == InitDest /\ [][NextDest]_vars

(***************************************************************************)
(* Utils.check_gwl (Utils.py lines 57-76), statement by statement          *)
(***************************************************************************)
MaxGwlLines == 3
GwlLineKinds == {CommentLine("x"), WasteLine, EmptyLine, [tag |-> "X"]}
GwlFiles == UNION {[1 .. n -> GwlLineKinds] : n \in 0 .. MaxGwlLines}

\* the argument is a file name or, as the docstring allows, a file handle
InitCheckGwl ==
    /\ \E lines \in GwlFiles, arg \in {"file name", "file handle"} :
          handle = [pc |-> "open", arg |-> arg, lines |-> lines, i |-> 1,
                    file |-> "none", err |-> "none"]
    /\ MMIdle /\ DilIdle
    /\ water = Idle /\ command = Idle /\ reorder = Idle /\ pip = Idle
    /\ rerun = Idle /\ transfer = Idle /\ dest = Idle

nothandle == <<mmvars, dilvars, water, command, reorder, pip, rerun, transfer, dest>>

\* lines 62-65: open() of a name returns a new file object; open() of a file
\* object raises TypeError, which `except ValueError` lets through
CheckGwlOpen ==
    /\ handle.pc = "open"
    /\ IF handle.arg = "file name"
       THEN handle' = [handle EXCEPT !.pc = "read", !.file = "open"]
       ELSE handle' = [handle EXCEPT !.pc = "error", !.err = "TypeError"]
    /\ UNCHANGED nothandle

\* lines 67-74: one pass of the loop
CheckGwlLine ==
    /\ handle.pc = "read"
    /\ handle.i <= Len(handle.lines)
    /\ IF check_gwl_raises(<<handle.lines[handle.i]>>) # "none"
       THEN handle' = [handle EXCEPT !.pc = "error", !.err = "ValueError"]
       ELSE handle' = [handle EXCEPT !.i = @ + 1]
    /\ UNCHANGED nothandle

\* line 76, reached when the loop has passed every line
CheckGwlClose ==
    /\ handle.pc = "read"
    /\ handle.i > Len(handle.lines)
    /\ handle' = [handle EXCEPT !.pc = "done", !.file = "closed"]
    /\ UNCHANGED nothandle

\* after an exception nothing refers to the file object any more: the
\* interpreter closes it whenever it reclaims the object, if it ever does
Finalize ==
    /\ handle.pc = "error"
    /\ handle.file = "open"
    /\ handle' = [handle EXCEPT !.file = "finalized"]
    /\ UNCHANGED nothandle

NextCheckGwl ==
    \/ CheckGwlOpen
    \/ CheckGwlLine
    \/ CheckGwlClose
    \/ Finalize

(***************************************************************************)
(* Reading the emitted command stream                                      *)
(***************************************************************************)
\* index of the first Waste after position k of s (Len(s) + 1 if there is none)
NextWaste(s, k) ==
    LET later == {j \in (k + 1) .. Len(s) : IsWaste(s[j])}
    IN  IF later = {} THEN Len(s) + 1
        ELSE CHOOSE j \in later : \A j2 \in later : j <= j2

\* sum of the Volumes of the Dispense commands among s[lo..hi]
RECURSIVE DispenseSum(_, _, _)
DispenseSum(s, lo, hi) ==
    IF lo > hi THEN 0
    ELSE (IF IsDispense(s[lo]) THEN s[lo].Volume ELSE 0) + DispenseSum(s, lo + 1, hi)

\* the dispenses an Aspirate at position k covers: those up to the next Waste
CoveredSum(s, k) == DispenseSum(s, k + 1, NextWaste(s, k) - 1)

\* sum of the Volumes of the Aspirate commands of s labelled with tube t
RECURSIVE TubeDrawn(_, _)
TubeDrawn(s, t) ==
    IF s = <<>> THEN 0
    ELSE (IF IsAspirate(Head(s)) /\ Head(s).tube = t THEN Head(s).Volume ELSE 0)
         + TubeDrawn(Tail(s), t)

TubesUsed(s) == {s[k].tube : k \in {j \in 1 .. Len(s) : IsAspirate(s[j])}}

\* number of Dispense commands among the first p elements of v
RECURSIVE DispCount(_, _)
DispCount(v, p) ==
    IF p = 0 THEN 0
    ELSE (IF IsDispense(v[p]) THEN 1 ELSE 0) + DispCount(v, p - 1)

\* the ordinals k such that the k-th dispense of v is directly followed by a Waste
WasteAfter(v) ==
    {DispCount(v, p) : p \in {q \in 1 .. Len(v) - 1 :
                                IsDispense(v[q]) /\ IsWaste(v[q + 1])}}

\* v[p..p+len-1] are all Dispense commands
DispenseRun(v, p, len) ==
    /\ p + len - 1 <= Len(v)
    /\ \A q \in p .. (p + len - 1) : IsDispense(v[q])

\* the rows of the Dispense commands of s, in order
DispRows(s) ==
    LET d == SelectSeq(s, IsDispense) IN [k \in 1 .. Len(d) |-> d[k].row]

\* the rows r < k with r mod 8 = c, ascending
RowsOf(c, k) ==
    LET cnt == IF k > c THEN (k - c + NChannels - 1) \div NChannels ELSE 0
    IN  [j \in 1 .. cnt |-> c + NChannels * (j - 1)]

\* s is a concatenation of cycles Aspirate, Dispense+, Waste
RECURSIVE IsCycles(_)
IsCycles(s) ==
    \/ s = <<>>
    \/ /\ Len(s) >= 3
       /\ IsAspirate(s[1])
       /\ IsDispense(s[2])
       /\ LET w == NextWaste(s, 1)
          IN  /\ w <= Len(s)
              /\ \A q \in 2 .. (w - 1) : IsDispense(s[q])
              /\ IsCycles(SubSeq(s, w + 1, Len(s)))

ChannelsClosed == pc \in {"aspirate", "emit", "done"}

(***************************************************************************)
(* Claims about Map2Robot.pip_mastermix                                    *)
(***************************************************************************)

\* C1: every Aspirate added to the worklist has Volume = round(1.15 * S, 1),
\* S being the sum of the Volumes of the Dispense commands between it and the
\* next Waste; also for the first sub-batch of a channel and for a channel
\* with a single dispense.
C1_AspirateCoversDispenses ==
    \A k \in 1 .. Len(gwl) :
        IsAspirate(gwl[k]) => gwl[k].Volume = RoundDiv100(115 * CoveredSum(gwl, k))

\* C2: for every tube id t the Volumes of the Aspirate commands labelled with
\* tube t sum to at most the tube capacity.
C2_TubeWithinCapacity ==
    \A t \in TubesUsed(gwl) : TubeDrawn(gwl, t) <= tube_max_vol

\* C3: when the call is done, the highest tube id on an emitted Aspirate is
\* ceil(V / M), V being the sum of all Dispense volumes and M the capacity.
C3_HighestTube ==
    pc = "done" =>
        LET V == DispenseSum(gwl, 1, Len(gwl))
            top == CHOOSE t \in TubesUsed(gwl) : \A u \in TubesUsed(gwl) : u <= t
        IN  V > 0 => top = (V + tube_max_vol - 1) \div tube_max_vol

\* C4: a channel that was assigned no transfer yields no commands and the
\* call does not raise.
C4_EmptyChannelNoError ==
    \A c \in Channels :
        channels[c] = <<>> => ~(pc = "error" /\ err = "IndexError" /\ channel = c)

\* C5: in each channel a Waste follows exactly the m-th, 2m-th, 3m-th, ...
\* dispense and the channel's last dispense (m = multi_disp).
C5_WasteEveryMth ==
    (pc = "aspirate" /\ channel = 0) =>
        \A c \in Channels :
            LET cnt == DispCount(channels[c], Len(channels[c]))
            IN  WasteAfter(channels[c]) =
                    {k \in 1 .. cnt : k % multi_disp = 0 \/ k = cnt}

\* C6: no channel's list ever holds more than multi_disp consecutive Dispense
\* commands, and when the aspirates are synthesized every non-empty list ends
\* with a Waste.
C6_BatchSize ==
    /\ \A c \in Channels : \A p \in 1 .. Len(channels[c]) :
           ~DispenseRun(channels[c], p, multi_disp + 1)
    /\ (ChannelsClosed \/ pc = "error") =>
           \A c \in Channels :
               (channels[c] # <<>> /\ ~(pc = "error" /\ c >= channel))
                   => IsWaste(channels[c][Len(channels[c])])

C6_Witness ==
    /\ pc = "aspirate" /\ channel = 0
    /\ multi_disp >= 2
    /\ DispenseRun(channels[0], 1, multi_disp)
    /\ Len(channels[0]) > multi_disp + 1
    /\ IsWaste(channels[0][Len(channels[0])])

\* C7: row i goes to channel i mod 8, so every channel holds floor(n/8) or
\* ceil(n/8) dispenses, in ascending row order, and in the emitted worklist the
\* dispenses of a channel keep that order.
C7_RoundRobin ==
    /\ \A c \in Channels :
           /\ DispRows(channels[c]) = RowsOf(c, i)
           /\ Len(DispRows(channels[c])) \in
                  {i \div NChannels, (i + NChannels - 1) \div NChannels}
    /\ pc = "done" =>
           \A c \in Channels :
               SelectSeq(DispRows(gwl), LAMBDA r : r % NChannels = c)
                   = RowsOf(c, df_map_n)

C7_Witness ==
    /\ pc = "done"
    /\ df_map_n > 2 * NChannels
    /\ df_map_n % NChannels # 0
    /\ Len(DispRows(gwl)) = df_map_n

\* C8: the stream added to the worklist is one Comment, the sequences of
\* channels 0..7 in ascending order, one Break; each channel's sequence is a
\* concatenation of cycles Aspirate, Dispense+, Waste.
C8_StreamShape ==
    pc \in {"done", "error"} =>
        /\ Len(gwl) >= 2
        /\ gwl[1] = Comment
        /\ gwl[Len(gwl)] = Break
        /\ SubSeq(gwl, 2, Len(gwl) - 1) = Flatten(channels, 0, NChannels - 1)
        /\ \A c \in Channels :
               /\ IsCycles(channels[c])
               /\ \A k \in 1 .. Len(channels[c]) :
                      IsDispense(channels[c][k]) => channels[c][k].row % NChannels = c

\* C8 restricted to the calls that return: the shape holds whenever the call
\* does not raise.
C8_ShapeWhenDone == pc = "done" => C8_StreamShape

(***************************************************************************)
(* Claims about Dilute.dilution_volumes                                    *)
(***************************************************************************)
RMin(a, b) == IF RLt(b, a) THEN b ELSE a
RMax(a, b) == IF RLt(a, b) THEN b ELSE a

\* C9: dilution_volumes never returns a table in which some
\* TECAN_total_volume exceeds the destination's max well volume (it raises
\* instead), also when the total was raised to min_total or recomputed.
C9_NoOverfullWell ==
    dpc = "returned" =>
        \A k \in 1 .. Len(df_conc) :
            RLe(df_conc[k].TECAN_total_volume, R(max_well_vol))

\* the values C10 states for a row of source concentration conc
DilutionOf(conc) ==
    LET c1 == RMax(R(conc), R(0))
        c2 == R(dilute_conc)
        total0 == RMax(RMin(RDiv(RMul(c1, R(min_vol)), c2), R(max_vol)), R(min_total))
        sample == IF RLe(c1, R(0)) THEN R(max_vol)
                  ELSE RMax(R(min_vol), RMin(RDiv(RMul(c2, total0), c1), R(max_vol)))
        dilutant == RMax(RSub(total0, sample), R(0))
        total == RAdd(sample, dilutant)
    IN  [c1 |-> c1, sample |-> sample, dilutant |-> dilutant, total |-> total]

IsExampleRun ==
    dilute_conc = 5 /\ min_vol = 2 /\ max_vol = 30 /\ min_total = 10

\* C10: for every row the returned table holds c1 = max(c1, 0), total =
\* min(c1*minVol/c2, maxVol) raised to minTotal, sample volume = maxVol if
\* c1 <= 0 else c2*total/c1 clamped into [minVol, maxVol], diluent =
\* max(total - sample, 0), total = sample + diluent, final concentration =
\* c1*sample/total (where that total is not 0); c1=50, c2=5, minVol=2,
\* maxVol=30, minTotal=10 gives total 20, sample 2, diluent 18, final 5.
C10_DilutionFormula ==
    dpc = "returned" =>
        \A k \in 1 .. Len(df_conc) :
            LET row == df_conc[k]
                d == DilutionOf(sample_conc_in[k])
            IN  /\ row.TECAN_sample_conc = d.c1
                /\ row.TECAN_sample_volume = d.sample
                /\ row.TECAN_dilutant_volume = d.dilutant
                /\ row.TECAN_total_volume = d.total
                /\ d.total # R(0) =>
                       row.TECAN_final_conc = RDiv(RMul(d.c1, d.sample), d.total)
                /\ (IsExampleRun /\ sample_conc_in[k] = 50) =>
                       /\ row.TECAN_total_volume = R(20)
                       /\ row.TECAN_sample_volume = R(2)
                       /\ row.TECAN_dilutant_volume = R(18)
                       /\ row.TECAN_final_conc = R(5)

C10_Witness ==
    /\ dpc = "returned"
    /\ IsExampleRun
    /\ Len(df_conc) = 2
    /\ sample_conc_in[1] = 50
    /\ df_conc[1].TECAN_total_volume = R(20)
    /\ df_conc[1].TECAN_final_conc = R(5)
    /\ sample_conc_in[2] < 0
    /\ df_conc[2].TECAN_sample_volume = R(max_vol)

\* total volume minus sample volume of a row is below zero
NegativeDiluent(row) == RLt(row.TECAN_total_volume, row.TECAN_sample_volume)

\* C11 (as stated): a negative computed diluent volume (provisional total
\* volume minus sample volume below zero) is a fatal error that aborts the
\* planner; it is never replaced by 0.  Right after the diluent column is
\* computed (the total column still holds the provisional total) the planner
\* must therefore not be running on with such a row.
C11_NegativeDiluentFatal ==
    dpc = "update" => \A k \in 1 .. Len(df_conc) : ~NegativeDiluent(df_conc[k])

\* C11 (amended): a negative computed diluent volume is replaced by 0 and the
\* planner continues without error: the diluent volume of every row is
\* max(total - sample, 0), and in the returned table no diluent volume is
\* negative and a row without diluent has its sample volume as total volume.
C11_NegativeDiluentClamped ==
    /\ dpc = "update" =>
          /\ derr = "none"
          /\ \A k \in 1 .. Len(df_conc) :
                df_conc[k].TECAN_dilutant_volume =
                    IF NegativeDiluent(df_conc[k]) THEN R(0)
                    ELSE RSub(df_conc[k].TECAN_total_volume,
                              df_conc[k].TECAN_sample_volume)
    /\ dpc = "returned" =>
          \A k \in 1 .. Len(df_conc) :
              /\ RLe(R(0), df_conc[k].TECAN_dilutant_volume)
              /\ df_conc[k].TECAN_dilutant_volume = R(0) =>
                     df_conc[k].TECAN_total_volume = df_conc[k].TECAN_sample_volume

C11_Witness ==
    /\ dpc = "update"
    /\ \E k \in 1 .. Len(df_conc) :
          /\ sample_conc_in[k] <= 0
          /\ NegativeDiluent(df_conc[k])
          /\ df_conc[k].TECAN_dilutant_volume = R(0)

\* what row k of the table passed to pip_water needs: pcr_volume minus the
\* sample, mastermix and primer volumes
WaterNeeded(k) ==
    water.pcr_volume - (water.samp[k] + water.mm_volume + water.prm_volume)

WaterCommands == {k \in 1 .. Len(water.gwl) : water.gwl[k].cmd \in {"A", "D"}}

\* C12: pip_water derives for every row water = pcr_volume - (sample volume
\* + mm_volume + prm_volume); if that is negative for some row the call fails
\* and no water Aspirate or Dispense has been added to the worklist;
\* otherwise the Aspirate and the Dispense of every row carry exactly that
\* volume, so that sample + mastermix + primer + water = pcr_volume.
C12_WaterVolume ==
    water.pc # "idle" =>
      /\ \A k \in 1 .. Len(water.water_volume) :
            water.water_volume[k] = WaterNeeded(k) /\ water.water_volume[k] >= 0
      /\ (\E k \in 1 .. Len(water.samp) : WaterNeeded(k) < 0) =>
            /\ WaterCommands = {}
            /\ water.pc \in {"comment", "calc", "error"}
      /\ water.pc = "error" =>
            /\ water.err = "AssertionError"
            /\ water.gwl = <<Comment>>
            /\ water.i < Len(water.samp) /\ WaterNeeded(water.i + 1) < 0
      /\ water.pc = "done" =>
            /\ Len(water.gwl) = 3 * Len(water.samp) + 2
            /\ water.gwl[1] = Comment
            /\ water.gwl[Len(water.gwl)] = Break
            /\ \A k \in 1 .. Len(water.samp) :
                  /\ water.gwl[3 * k - 1] = WaterAspirate(WaterNeeded(k))
                  /\ water.gwl[3 * k] = WaterDispense(k - 1, WaterNeeded(k))
                  /\ water.gwl[3 * k + 1] = Waste
                  /\ water.samp[k] + water.mm_volume + water.prm_volume
                       + water.gwl[3 * k].Volume = water.pcr_volume
                  /\ water.TECAN_water_rxn_volume[k] = WaterNeeded(k)

\* a call that fails on its second row, the first row needing water
C12_Witness ==
    /\ water.pc = "error"
    /\ Len(water.samp) >= 2
    /\ WaterNeeded(1) > 0
    /\ WaterNeeded(2) < 0
    /\ water.gwl = <<Comment>>

\* a command object exists
CommandExists == command.pc \in {"ready", "serialized"}

\* C13: for every command class with a LiquidClass (aspirate, dispense,
\* multi_disp, reagent_distribution) assigning a value outside the allow-list
\* fails at the assignment and leaves the stored class unchanged, assigning an
\* allowed value stores it, and no command object ever holds a liquid class
\* outside the allow-list (in particular not when it is serialized).
C13_LiquidClassValidated ==
    CommandExists =>
      /\ command.obj["LiquidClass"] \in psbl_liq_cls
      /\ command.last.attr = "LiquidClass" =>
            IF command.last.value \in psbl_liq_cls
            THEN /\ command.last.raised = "none"
                 /\ command.obj["LiquidClass"] = command.last.value
            ELSE /\ command.last.raised = "TypeError"
                 /\ command.obj["LiquidClass"] = command.last.before

\* a value that coerces to an integer >= 1
IsPosition(value) == value.ok /\ value.int >= 1

\* C14: assigning Position on an Aspirate or Dispense command, or
\* DestPositions on a multi_disp command, fails at the assignment unless the
\* value coerces to an integer >= 1; no command holds a position <= 0.
C14_PositionValidated ==
    CommandExists =>
      /\ command.cls \in {"asp_disp", "aspirate", "dispense"} =>
            command.obj["Position"] >= 1
      /\ command.cls = "multi_disp" =>
            \A k \in 1 .. Len(command.obj["DestPositions"]) :
                command.obj["DestPositions"][k] >= 1
      /\ (command.last.attr = "Position" /\ ~IsPosition(command.last.value)) =>
            command.last.raised # "none"
      /\ (/\ command.last.attr = "DestPositions"
          /\ \E k \in 1 .. Len(command.last.value) :
                ~IsPosition(command.last.value[k])) =>
            command.last.raised # "none"

\* reorder_384well has returned the reordering of a 384-well table
Reordered384 == reorder.pc = "returned" /\ reorder.n_wells = 384

\* the returned table holds every row of the table passed in exactly once,
\* each with the position it came with
IsPermutation ==
    /\ Len(reorder.df) = Len(reorder.df_in)
    /\ \A k \in 1 .. Len(reorder.df_in) :
          \E j \in 1 .. Len(reorder.df) : reorder.df[j] = reorder.df_in[k]

\* in the returned table every row of odd position precedes every row of
\* even position
OddBeforeEven ==
    \A j, k \in 1 .. Len(reorder.df) :
        (IsOddRow(reorder.df[j]) /\ IS_EVEN(reorder.df[k])) => j < k

\* rows of the same parity are in the order they had in the table passed in
KeepsInputOrder ==
    \A j, k \in 1 .. Len(reorder.df) :
        (j < k /\ IS_EVEN(reorder.df[j]) = IS_EVEN(reorder.df[k])) =>
            reorder.df[j].id < reorder.df[k].id

\* rows of the same parity are in ascending order of position, rows of the
\* same position in the order they had in the table passed in
AscendingInParity ==
    \A j, k \in 1 .. Len(reorder.df) :
        (j < k /\ IS_EVEN(reorder.df[j]) = IS_EVEN(reorder.df[k])) =>
            \/ reorder.df[j].pos < reorder.df[k].pos
            \/ /\ reorder.df[j].pos = reorder.df[k].pos
               /\ reorder.df[j].id < reorder.df[k].id

InputPositions == [k \in 1 .. Len(reorder.df_in) |-> reorder.df_in[k].pos]
OutputPositions == [k \in 1 .. Len(reorder.df) |-> reorder.df[k].pos]

\* C16 (as stated): reorder_384well returns a permutation of the rows, all
\* rows of odd position first, then all rows of even position, the rows of
\* each parity keeping their relative order from the input table, for every
\* input order; positions [1,2,3,4] become [1,3,2,4].
C16_ReorderKeepsInputOrder ==
    Reordered384 =>
      /\ IsPermutation
      /\ OddBeforeEven
      /\ KeepsInputOrder
      /\ InputPositions = <<1, 2, 3, 4>> => OutputPositions = <<1, 3, 2, 4>>

\* C16 (amended): both functions return a permutation of the rows with all
\* odd positions first and all even positions after them.  Dilute's
\* reorder_384well puts the rows of each parity in ascending order of
\* position (equal positions in input order), whatever the input order was;
\* Utils' _reorder_384well keeps the input order within each parity and
\* leaves the table of a labware without 384 wells as it is.
C16_ReorderSortsWithinParity ==
    reorder.pc = "returned" =>
      /\ IsPermutation
      /\ reorder.n_wells = 384 => OddBeforeEven
      /\ reorder.impl = "Dilute" => AscendingInParity
      /\ (reorder.impl = "Utils" /\ reorder.n_wells = 384) => KeepsInputOrder
      /\ reorder.n_wells # 384 => reorder.df = reorder.df_in
      /\ (reorder.n_wells = 384 /\ InputPositions = <<1, 2, 3, 4>>) =>
            OutputPositions = <<1, 3, 2, 4>>

\* Dilute's function called with a table that is not sorted by position
C16_Witness ==
    /\ Reordered384
    /\ reorder.impl = "Dilute"
    /\ InputPositions = <<3, 1, 2>>
    /\ OutputPositions = <<1, 3, 2>>

\* the call has ended, by returning or by an exception
PipEnded == pip.pc \in {"done", "error"}

\* C15: for every input table, one whose diluent volumes are all zero or
\* round to zero included, the dilution pipeline (pip_dilutant followed by
\* pip_samples) produces a worklist, and every line it writes is non-empty
\* and starts with one of the tags A, D, R, W, F, C, B, so that check_gwl
\* accepts the worklist.  (A table with a diluent volume above the tip
\* capacity is refused, which C19 is about.)
C15_WorklistAccepted ==
    pip.entry = "pip_dilutant" =>
      /\ check_gwl_raises(pip.out) = "none"
      /\ (PipEnded /\ pip.df # <<>> /\ MaxVolume(pip.df) <= TipLimit) =>
            pip.pc = "done"

\* the lines cmd() returned
Returned == pip.returned
\* the destinations of the multi_disp object whose volume is > 0, in order
PositiveDests ==
    SelectSeq(pip.md[1].DestPositions, LAMBDA d : Volumes(pip.md[1])[d] > 0)
\* the positions of the Dispense lines cmd() returned, in order
DispensedPositions ==
    LET d == SelectSeq(Returned, LAMBDA l : l.tag = "D")
    IN  [k \in 1 .. Len(d) |-> d[k].Position]
WasteCount == Len(SelectSeq(Returned, LAMBDA l : l.tag = "W"))

\* a call of cmd() with a limit of at least one dispense per cycle has ended
CmdEnded == pip.entry = "cmd" /\ PipEnded /\ pip.md[1].NoOfMultiDisp >= 1

\* C17: cmd() returns, for every list of destinations and volumes, exactly
\* one Dispense line for every destination whose volume is > 0 and none for
\* a destination whose volume is <= 0, in input order; destinations without
\* a line do not count towards NoOfMultiDisp, so the cycles (each closed by
\* 'W;') are as few as the Dispense lines allow.
C17_DispensePerPositiveVolume ==
    CmdEnded =>
      /\ pip.pc = "done"
      /\ DispensedPositions = PositiveDests
      /\ (WasteCount - 1) * pip.md[1].NoOfMultiDisp < Len(PositiveDests)
           \/ (WasteCount = 0 /\ PositiveDests = <<>>)
      /\ WasteCount * pip.md[1].NoOfMultiDisp >= Len(PositiveDests)

\* index of the first 'W;' line after line k (Len + 1 if there is none)
NextWasteLine(s, k) ==
    IF \E j \in (k + 1) .. Len(s) : s[j].tag = "W"
    THEN CHOOSE j \in (k + 1) .. Len(s) :
             s[j].tag = "W" /\ \A h \in (k + 1) .. (j - 1) : s[h].tag # "W"
    ELSE Len(s) + 1

\* the sum of the Volumes of the Dispense lines between line k and the next 'W;'
CycleSum(s, k) == SumVolumes(SubSeq(s, k + 1, NextWasteLine(s, k) - 1))

\* the number of Aspirate lines among the first k lines
CycleNumber(s, k) == Cardinality({j \in 1 .. k : s[j].tag = "A"})

\* C18: cmd() returns its lines, and every Aspirate line among them has
\* Volume = round(1.05 * S, 1), S being the sum of the Volumes of the
\* Dispense lines between it and the following 'W;' line; the volume the tip
\* type of that cycle is chosen for (total_asp_volume) is that same S.
C18_AspirateVolume ==
    CmdEnded =>
      /\ pip.pc = "done"
      /\ \A k \in 1 .. Len(Returned) :
            Returned[k].tag = "A" =>
              /\ Returned[k].Volume = asp_volume(CycleSum(Returned, k))
              /\ pip.tips[CycleNumber(Returned, k)] = CycleSum(Returned, k)

\* C19: pip_dilutant fails with an error when the largest diluent volume
\* exceeds the largest tip capacity (900 ul), and has written no line to the
\* worklist output then, not even the Comment line.
C19_AbortsBeforeWriting ==
    (pip.entry = "pip_dilutant" /\ pip.df # <<>> /\ MaxVolume(pip.df) > 900000) =>
      /\ pip.pc \in {"max_vol", "error"}
      /\ pip.out = <<>>
      /\ pip.pc = "error" => pip.err = "ValueError"

\* a table of two rows, the second with 902 ul of diluent, has been refused
C19_Witness ==
    /\ pip.entry = "pip_dilutant"
    /\ pip.pc = "error"
    /\ pip.err = "ValueError"
    /\ Len(pip.df) = 2
    /\ pip.df[1].TECAN_dilutant_volume = 30000
    /\ pip.df[2].TECAN_dilutant_volume = 902000
    /\ pip.out = <<>>

\* C20: after cmd() has run with a labware tracker, the (RackLabel,
\* RackType) of every Aspirate and Dispense line it returned has been passed
\* to Labware_tracker.add, also when the destinations of a cycle differ in
\* their labware.
C20_LabwareTracked ==
    (CmdEnded /\ pip.md[1].Labware_tracker) =>
      /\ pip.pc = "done"
      /\ \A k \in 1 .. Len(Returned) :
            Returned[k].tag \in {"A", "D"} =>
                \E j \in 1 .. Len(pip.adds) : pip.adds[j] = LabwareOf(Returned[k])

(***************************************************************************)
(* File handles: Utils.check_gwl and the worklist of Dilute.main           *)
(***************************************************************************)
InitFiles == InitCheckGwl \/ InitPip
NextFiles == NextCheckGwl \/ NextPip
SpecFiles == InitFiles /\ [][NextFiles]_vars

\* check_gwl has returned or raised
CheckGwlEnded == handle.pc \in {"done", "error"}
\* the with-block of Dilute.main has been left
MainLeft == pip.pc \in {"done", "error"} /\ pip.entry = "pip_dilutant"
                /\ pip.gwlFH # "open"

\* C21: a file that check_gwl opened is closed when check_gwl returns and
\* when it raises for an empty line or an invalid command ID, and the
\* worklist handle of Dilute.main is closed when its with-block is left,
\* also by an exception of pip_dilutant or pip_samples
C21_HandlesClosed ==
    /\ (CheckGwlEnded /\ handle.file # "none") => handle.file = "closed"
    /\ MainLeft => pip.gwlFH = "closed"

(***************************************************************************)
(* The line asp_disp.cmd() returns                                         *)
(***************************************************************************)
\* Fluent.py lines 11-15: the fields of an Aspirate or Dispense record
GwlFields ==
    <<"ID", "RackLabel", "RackID", "RackType", "Position", "TubeID", "Volume",
      "LiquidClass", "TipType", "TipMask", "ForcedRackType">>
\* the attribute cmd() reads for a field of the record
AttrOfField(f) == IF f = "ID" THEN "_ID" ELSE f
\* line 107: ';'.join(vals) puts one ';' between two neighbours
Semicolons(line) == IF line = <<>> THEN 0 ELSE Len(line) - 1
Serialized == command.pc = "serialized" /\ command.cls = "asp_disp"

\* C22: the line asp_disp.cmd() returns has the 11 fields ID, RackLabel,
\* RackID, RackType, Position, TubeID, Volume, LiquidClass, TipType, TipMask,
\* ForcedRackType in this order, separated by 10 semicolons, whichever of the
\* attributes have been set
C22_ElevenFields ==
    Serialized =>
        /\ Len(command.line) = Len(GwlFields)
        /\ Semicolons(command.line) = Len(GwlFields) - 1
        /\ \A k \in 1 .. Len(GwlFields) :
               /\ AttrOfField(GwlFields[k]) \in DOMAIN command.obj
               /\ command.line[k] =
                      FieldOf(command.cls, command.obj, AttrOfField(GwlFields[k]))
(***************************************************************************)
(* Two calls with the same arguments                                       *)
(***************************************************************************)
InitTwice == InitMM \/ InitPip
NextTwice == NextMM \/ NextPip
SpecTwice == InitTwice /\ [][NextTwice]_vars

\* the second call of pip_mastermix has returned or raised
SecondMMEnded == rerun.pc = "second" /\ pc \in {"done", "error"}
\* the second call of cmd() has returned or raised
SecondCmdEnded == rerun.pc = "second" /\ pip.pc \in {"done", "error"}
\* the Aspirate commands of a channel list, in the order of the list
AspiratesOf(v) == SelectSeq(v, IsAspirate)
\* the aspirates of channel 0 have been synthesized
FirstChannelLabelled ==
    /\ pc \in {"aspirate", "emit", "done"}
    /\ pc = "aspirate" => channel > 0
    /\ AspiratesOf(channels[0]) # <<>>
\* the Aspirate that was labelled first: the scan of channel 0 runs backwards,
\* so it is the last Aspirate of the list of channel 0
FirstLabelled == LET a == AspiratesOf(channels[0]) IN a[Len(a)]

\* C23: a second call of pip_mastermix with the same table and parameters adds
\* the same commands as the first (or ends in the same exception), a second
\* call of multi_disp.cmd on the same object ends as the first did, and in
\* each call of pip_mastermix total_vol_sum is 0 when the first channel is
\* scanned, so that the Aspirate labelled first is assigned tube 1
C23_SameOutputTwice ==
    /\ SecondMMEnded =>
          pc = rerun.ended /\ err = rerun.err /\ gwl = rerun.gwl
    /\ SecondCmdEnded =>
          /\ pip.pc = rerun.ended /\ pip.err = rerun.err
          /\ pip.returned = rerun.returned
    /\ (pc = "aspirate" /\ channel = 0) => total_vol_sum = 0
    /\ FirstChannelLabelled => FirstLabelled.tube = 1

\* the second call has added a worklist in which a later tube is in use
C23_Witness ==
    /\ SecondMMEnded /\ pc = "done"
    /\ \E k \in 1 .. Len(gwl) : IsAspirate(gwl[k]) /\ gwl[k].tube > 1
    /\ FirstChannelLabelled
(***************************************************************************)
(* Order of the source tubes in the worklist of pip_mastermix              *)
(***************************************************************************)
\* C24: in the commands pip_mastermix has added, the tube id of an Aspirate is
\* never smaller than the tube id of an Aspirate added before it, also among
\* the Aspirates of one channel
C24_TubeIdsNeverDecrease ==
    pc = "done" =>
        \A j \in 1 .. Len(gwl), k \in 1 .. Len(gwl) :
            (j < k /\ IsAspirate(gwl[j]) /\ IsAspirate(gwl[k]))
                => gwl[j].tube <= gwl[k].tube
(***************************************************************************)
(* Shape of what multi_disp.cmd returns                                    *)
(***************************************************************************)
\* a call of cmd() has returned or raised, whatever its NoOfMultiDisp
AnyCmdEnded == pip.entry = "cmd" /\ PipEnded
TagAt(s, k) == IF k \in 1 .. Len(s) THEN s[k].tag ELSE "end"
\* s is a concatenation of cycles: one Aspirate line, 1 to n Dispense lines,
\* one 'W;' line
IsCycleLines(s, n) ==
    \A k \in 1 .. Len(s) :
        /\ s[k].tag \in {"A", "D", "W"}
        /\ s[k].tag = "A" =>
              /\ TagAt(s, k - 1) \in {"end", "W"}
              /\ TagAt(s, k + 1) = "D"
              /\ NextWasteLine(s, k) - k - 1 <= n
        /\ s[k].tag = "D" =>
              /\ TagAt(s, k - 1) \in {"A", "D"}
              /\ TagAt(s, k + 1) \in {"D", "W"}
        /\ s[k].tag = "W" =>
              /\ TagAt(s, k - 1) = "D"
              /\ TagAt(s, k + 1) \in {"end", "A"}

\* C25: cmd() returns a concatenation of zero or more cycles, each made of
\* one Aspirate line, then between 1 and NoOfMultiDisp Dispense lines, then
\* one 'W;' line; no Aspirate line is returned without a Dispense line after
\* it, also when the destinations that remain all have volume zero
C25_CyclesOnly ==
    AnyCmdEnded =>
      /\ pip.pc = "done"
      /\ IsCycleLines(Returned, pip.md[1].NoOfMultiDisp)
Bucket(v) ==
    IF 2 * v < 45000 THEN 45000
    ELSE IF 2 * v < 180000 THEN 180000
    ELSE 900000
\* pip_dilutant has passed line 429
NDispComputed ==
    /\ pip.pc \notin {"idle", "max_vol", "n_disp"}
    /\ pip.entry = "pip_dilutant"
    /\ pip.err \notin {"ValueError", "ZeroDivisionError", "OverflowError"}

MainEnded ==
    /\ PipEnded
    /\ pip.entry = "pip_dilutant"
    /\ pip.df # <<>>
    /\ MaxVolume(pip.df) <= TipLimit
\* the lines of `out` with tag t that name source `label` and position r
LinesAt(out, t, label, r) ==
    {k \in 1 .. Len(out) :
        out[k].tag = t /\ out[k].RackLabel = label /\ out[k].Position = r}
\* the sample commands: the Aspirates from the sample labware, each with the
\* Dispense line that follows it
SampleLines(out) ==
    LET a == {k \in 1 .. Len(out) : out[k].tag = "A" /\ out[k].RackLabel = "source"}
    IN  a \cup {k + 1 : k \in a}
\* the diluent commands: the Aspirates from the diluent trough, and the
\* Dispense lines up to the 'W;' that follows each
DiluentLines(out) ==
    {k \in 1 .. Len(out) :
        /\ out[k].tag \in {"A", "D"}
        /\ k \notin SampleLines(out)}

\* C28: Dilute.main writes a worklist in which every diluent command precedes
\* every sample command; every row gets exactly one sample Aspirate and one
\* sample Dispense, whatever its diluent volume, and the diluent Dispense
\* into a destination (written when the diluent volume is not zero) precedes
\* the sample Dispense into it
C28_DiluentBeforeSample ==
    MainEnded =>
      /\ pip.pc = "done"
      /\ \A j \in DiluentLines(pip.out), k \in SampleLines(pip.out) : j < k
      /\ \A r \in 1 .. Len(pip.df) :
            /\ Cardinality(LinesAt(pip.out, "A", "source", r)) = 1
            /\ \E k \in SampleLines(pip.out) :
                  /\ pip.out[k].tag = "D"
                  /\ pip.out[k].Position = r
                  /\ pip.out[k].RackLabel = pip.df[r].TECAN_dest_labware_name
                  /\ \A k2 \in SampleLines(pip.out) :
                        (pip.out[k2].tag = "D" /\ pip.out[k2].Position = r) => k2 = k
                  /\ round2(pip.df[r].TECAN_dilutant_volume) > 0 =>
                        \E j \in DiluentLines(pip.out) :
                            /\ j < k
                            /\ pip.out[j].tag = "D"
                            /\ pip.out[j].Position = r
(***************************************************************************)
(* Single transfers: Map2Robot.pip_primers, pip_samples, pip_water and     *)
(* Dilute.pip_samples                                                      *)
(***************************************************************************)
InitSingle == InitTransfer \/ InitWater \/ InitPip
NextSingle == NextTransfer \/ NextWater \/ NextPip
SpecSingle == InitSingle /\ [][NextSingle]_vars

\* g is a Comment, then for each of n rows an Aspirate, a Dispense and a
\* Waste, the Dispense with the Volume of its Aspirate and both with liquid
\* class c, then a Break
IsTriples(g, n, c) ==
    /\ Len(g) = 3 * n + 2
    /\ \A k \in 1 .. n :
          /\ IsAspirate(g[3 * k - 1])
          /\ IsDispense(g[3 * k])
          /\ IsWaste(g[3 * k + 1])
          /\ g[3 * k].Volume = g[3 * k - 1].Volume
          /\ g[3 * k - 1].LiquidClass = c
          /\ g[3 * k].LiquidClass = c
\* the same for the lines Dilute.pip_samples writes after 'C;Samples'
IsTripleLines(out, n, c) ==
    /\ Len(out) = 3 * n + 1
    /\ \A k \in 1 .. n :
          /\ out[3 * k - 1].tag = "A"
          /\ out[3 * k].tag = "D"
          /\ out[3 * k + 1].tag = "W"
          /\ out[3 * k].Volume = out[3 * k - 1].Volume
          /\ out[3 * k - 1].LiquidClass = c
          /\ out[3 * k].LiquidClass = c

\* C29: in Map2Robot.pip_primers, Map2Robot.pip_samples, Map2Robot.pip_water
\* and Dilute.pip_samples every row produces exactly three consecutive
\* commands, Aspirate, Dispense, Waste, and the Dispense carries the Volume
\* of its Aspirate and, as the Aspirate does, the liquid class the caller
\* asked for
C29_TriplePerRow ==
    /\ transfer.pc = "done" =>
          IsTriples(transfer.gwl, Len(transfer.vols), transfer.liq_cls)
    /\ water.pc = "done" =>
          IsTriples(water.gwl, Len(water.samp), water.liq_cls)
    /\ (PipEnded /\ pip.entry = "pip_samples") =>
          /\ pip.pc = "done"
          /\ IsTripleLines(pip.out, Len(pip.df), "Water Contact Wet Single No-cLLD")
(***************************************************************************)
(* Destinations assigned by Map2Robot.add_dest                             *)
(***************************************************************************)
\* the row of reaction i_ (0-based)
DestRow(i_) == dest.df_dest[i_ + 1]
\* reaction i_ falls beyond the last well of the first plate
Overflows(i_) == i_ + dest.dest_start > dest.positions

\* C30: with a plate of W wells and 1 <= dest_start <= W, add_dest gives
\* reaction i position ((i + dest_start - 1) mod W) + 1; a reaction with
\* i + dest_start > W gets a labware name other than the name of the
\* reactions with i + dest_start <= W; no two reactions share labware name
\* and position, and no reaction is put on a well before dest_start of the
\* first plate
C30_DestinationsDistinct ==
    dest.pc = "done" =>
      /\ \A a \in 0 .. dest.nrow - 1 :
            DestRow(a).TECAN_dest_target_position =
                ((a + dest.dest_start - 1) % dest.positions) + 1
      /\ \A a \in 0 .. dest.nrow - 1, b \in 0 .. dest.nrow - 1 :
            /\ (Overflows(a) /\ ~Overflows(b)) =>
                  DestRow(a).TECAN_dest_labware_name #
                      DestRow(b).TECAN_dest_labware_name
            /\ a # b => DestRow(a) # DestRow(b)
      /\ \A a \in 0 .. dest.nrow - 1 :
            DestRow(a).TECAN_dest_labware_name = DestRow(0).TECAN_dest_labware_name
                => DestRow(a).TECAN_dest_target_position >= dest.dest_start

====
